---------------------------- MODULE Spec2Model ----------------------------
(***************************************************************************)
(* Model of the iq-core tiling puzzle: the geometry and board functions,   *)
(* the variation cache, the backtracking level generator                   *)
(* (src/services/gameLogic.ts) and the interactive board of src/App.tsx.   *)
(*                                                                         *)
(* Coordinates are records [x, y]; a shape is a sequence of coordinates    *)
(* (the order matters: a drag anchors on the index of a sphere).  A grid   *)
(* is a sequence of GRID_ROWS rows of GRID_COLS cells, so the source's     *)
(* grid[y][x] is grid[y + 1][x + 1] here.                                  *)
(***************************************************************************)
EXTENDS Integers, Sequences, FiniteSets, TLC

VARIABLES
    \* one call of a function of gameLogic.ts: where it is, its arguments, its result
    fnPc, fnArgs, fnRet,
    \* the module-level variation cache of gameLogic.ts
    PRECOMPUTED_VARIATIONS,
    \* one call of generateLevel: where it is, its argument, the warnings
    \* "Retrying..." logged so far, and the locals fullSolution and puzzleSetup
    glPc, levelNum, gvbRetries, fullSolution, puzzleSetup,
    \* the state of the App component (App.tsx lines 34-44), and the callbacks
    \* of loadLevel that have not run yet: the level each will generate
    placedPieces, loading, level, gameMode, dragState, ghostState, pendingLoads,
    \* one run of solveRecursively taken step by step: where it is, the list of
    \* the call being made, the frames of the calls in progress, the grid they
    \* were all passed (a reference into gridHeap), and the value the last
    \* finished call returned
    searchPc, searchArg, searchStack, searchGrid, searchRet,
    \* the grids allocated so far, in the order of their allocation
    gridHeap,
    \* the calls of solveRecursively made by generateValidBoard so far: the list
    \* each was given and, once it has returned, what it returned
    searchRuns

fnVars == <<fnPc, fnArgs, fnRet>>
levelVars == <<glPc, levelNum, gvbRetries, fullSolution, puzzleSetup>>
gameVars == <<placedPieces, loading, level, gameMode, dragState, ghostState, pendingLoads>>
searchVars == <<searchPc, searchArg, searchStack, searchGrid, searchRet, gridHeap, searchRuns>>
coreVars == <<fnPc, fnArgs, fnRet, PRECOMPUTED_VARIATIONS,
              glPc, levelNum, gvbRetries, fullSolution, puzzleSetup,
              searchPc, searchArg, searchStack, searchGrid, searchRet, gridHeap, searchRuns>>
vars == <<fnPc, fnArgs, fnRet, PRECOMPUTED_VARIATIONS,
          glPc, levelNum, gvbRetries, fullSolution, puzzleSetup,
          placedPieces, loading, level, gameMode, dragState, ghostState, pendingLoads,
          searchPc, searchArg, searchStack, searchGrid, searchRet, gridHeap, searchRuns>>

NULL == "null"

Range(s) == { s[i] : i \in DOMAIN s }

RECURSIVE SeqMap(_, _)
SeqMap(F(_), s) ==
    IF s = <<>> THEN <<>> ELSE <<F(Head(s))>> \o SeqMap(F, Tail(s))

(***************************************************************************)
(* src/constants.ts                                                        *)
(***************************************************************************)
GRID_ROWS == 5
GRID_COLS == 11

XY(a, b) == [x |-> a, y |-> b]

PIECE_DEFINITIONS ==
    << [id |-> "L", initialShape |-> <<XY(0,0), XY(1,0), XY(0,1)>>],
       [id |-> "J", initialShape |-> <<XY(0,0), XY(1,0), XY(2,0), XY(1,1)>>],
       [id |-> "I", initialShape |-> <<XY(0,0), XY(1,0), XY(2,0), XY(0,1)>>],
       [id |-> "K", initialShape |-> <<XY(0,0), XY(1,0), XY(1,1), XY(2,1)>>],
       [id |-> "A", initialShape |-> <<XY(0,0), XY(1,0), XY(0,1), XY(1,1), XY(0,2)>>],
       [id |-> "B", initialShape |-> <<XY(0,0), XY(0,1), XY(1,1), XY(1,2), XY(2,2)>>],
       [id |-> "C", initialShape |-> <<XY(0,0), XY(1,0), XY(0,1), XY(0,2), XY(1,2)>>],
       [id |-> "D", initialShape |-> <<XY(0,0), XY(1,0), XY(2,0), XY(3,0), XY(0,1)>>],
       [id |-> "E", initialShape |-> <<XY(0,0), XY(1,0), XY(2,0), XY(3,0), XY(1,1)>>],
       [id |-> "F", initialShape |-> <<XY(0,0), XY(1,0), XY(2,0), XY(0,1), XY(0,2)>>],
       [id |-> "G", initialShape |-> <<XY(1,0), XY(2,0), XY(0,1), XY(1,1), XY(1,2)>>],
       [id |-> "H", initialShape |-> <<XY(0,0), XY(1,0), XY(1,1), XY(2,1), XY(3,1)>>] >>

\* PIECE_DEFINITIONS.map(p => p.id)
allPieceIds == [ i \in DOMAIN PIECE_DEFINITIONS |-> PIECE_DEFINITIONS[i].id ]

PieceIds == { PIECE_DEFINITIONS[i].id : i \in DOMAIN PIECE_DEFINITIONS }

Rotations == {0, 90, 180, 270}

(***************************************************************************)
(* Geometry helpers, src/services/gameLogic.ts                             *)
(***************************************************************************)
\* A plausible slip: the quarter turn the other way round, (x, y) -> (y, -x).
RECURSIVE rotatePoint_Clockwise(_, _)
rotatePoint_Clockwise(point, times) ==
    IF times <= 0 THEN point
    ELSE rotatePoint_Clockwise(XY(point.y, 0 - point.x), times - 1)

\* Lines 7-15.
RECURSIVE rotatePoint(_, _)
rotatePoint(point, times) ==
    IF times <= 0 THEN point
    ELSE rotatePoint(XY(-point.y, point.x), times - 1)

\* PIECE_DEFINITIONS.find(p => p.id === pieceId): the index of the first entry
\* with that id, or 0 when there is none (the source's undefined).
FindDef(pieceId) ==
    LET hits == { i \in DOMAIN PIECE_DEFINITIONS : PIECE_DEFINITIONS[i].id = pieceId }
    IN  IF hits = {} THEN 0
        ELSE CHOOSE i \in hits : \A j \in hits : i <= j

getTransformedCoordinates(pieceId, rotation, isFlipped) ==
    LET def == FindDef(pieceId)
        rotationCount == (rotation % 360) \div 90
        Flip(p) == XY(IF isFlipped THEN -p.x ELSE p.x, p.y)
        Rot(p) == rotatePoint(p, rotationCount)
    IN  IF def = 0 THEN <<>>
        ELSE SeqMap(Rot, SeqMap(Flip, PIECE_DEFINITIONS[def].initialShape))

\* A board that is null in the source is the empty sequence here.
NoBoard == <<>>

\* The source indexes currentBoard[targetY][targetX].
BoardAt(board, x, y) == board[y + 1][x + 1]

InGrid(x, y) == x >= 0 /\ x < GRID_COLS /\ y >= 0 /\ y < GRID_ROWS

\* The loop of isValidPlacement from coordinate i on: the first cell that is
\* out of the grid or on a non-empty board cell ends it with false.
RECURSIVE PlacementLoop(_, _, _, _, _)
PlacementLoop(coords, i, gridX, gridY, currentBoard) ==
    IF i > Len(coords) THEN TRUE
    ELSE LET targetX == gridX + coords[i].x
             targetY == gridY + coords[i].y
         IN  IF targetX < 0 \/ targetX >= GRID_COLS
                \/ targetY < 0 \/ targetY >= GRID_ROWS
             THEN FALSE
             ELSE IF currentBoard # NoBoard /\ BoardAt(currentBoard, targetX, targetY) # NULL
             THEN FALSE
             ELSE PlacementLoop(coords, i + 1, gridX, gridY, currentBoard)

\* A plausible slip: the loop returns after looking at the first sphere only.
isValidPlacement_FirstCellOnly(pieceId, gridX, gridY, rotation, isFlipped, currentBoard) ==
    LET coords == getTransformedCoordinates(pieceId, rotation, isFlipped)
    IN  PlacementLoop(SubSeq(coords, 1, 1), 1, gridX, gridY, currentBoard)

isValidPlacement(pieceId, gridX, gridY, rotation, isFlipped, currentBoard) ==
    LET coords == getTransformedCoordinates(pieceId, rotation, isFlipped)
    IN  PlacementLoop(coords, 1, gridX, gridY, currentBoard)

EmptyBoard == [y \in 1..GRID_ROWS |-> [x \in 1..GRID_COLS |-> NULL]]

\* A plausible slip: a cell of the piece outside the grid is moved to the
\* nearest cell of the grid, not skipped.
MarkCells_Clamped(grid, piece, coords) ==
    [ y \in 1..GRID_ROWS |->
        [ x \in 1..GRID_COLS |->
            IF \E i \in DOMAIN coords :
                  LET cx == piece.x + coords[i].x
                      cy == piece.y + coords[i].y
                  IN  /\ (IF cx < 0 THEN 0 ELSE IF cx >= GRID_COLS THEN GRID_COLS - 1 ELSE cx) = x - 1
                      /\ (IF cy < 0 THEN 0 ELSE IF cy >= GRID_ROWS THEN GRID_ROWS - 1 ELSE cy) = y - 1
            THEN piece.id
            ELSE grid[y][x] ] ]

\* Lines 93-99, the inner forEach of getBoardGrid: every cell of the grid that
\* is a cell of the piece gets the piece's id (a cell of the piece outside the
\* grid is skipped, lines 95-97); the other cells keep what they hold.
MarkCells(grid, piece, coords) ==
    [ y \in 1..GRID_ROWS |->
        [ x \in 1..GRID_COLS |->
            IF \E i \in DOMAIN coords :
                  /\ piece.x + coords[i].x = x - 1
                  /\ piece.y + coords[i].y = y - 1
            THEN piece.id
            ELSE grid[y][x] ] ]

\* Lines 87-100, the outer forEach: the pieces in list order from the k-th on.
RECURSIVE BoardLoop(_, _, _)
BoardLoop(grid, pieces, k) ==
    IF k > Len(pieces) THEN grid
    ELSE LET piece == pieces[k]
             coords == getTransformedCoordinates(piece.id, piece.rotation, piece.isFlipped)
         IN  BoardLoop(MarkCells(grid, piece, coords), pieces, k + 1)

getBoardGrid(pieces) == BoardLoop(EmptyBoard, pieces, 1)

(***************************************************************************)
(* The static fallback layout of generateChallenge.                        *)
(***************************************************************************)
FallbackChallenge ==
    << [id |-> "C", x |-> 1, y |-> 1, rotation |-> 0, isFlipped |-> FALSE],
       [id |-> "J", x |-> 6, y |-> 2, rotation |-> 270, isFlipped |-> TRUE],
       [id |-> "E", x |-> 9, y |-> 0, rotation |-> 180, isFlipped |-> FALSE] >>

(***************************************************************************)
(* Shuffles.  The source shuffles with sort(() => Math.random() - 0.5);    *)
(* the outcome is some permutation of the list.  Permute(s, k) is the k-th *)
(* permutation of s in lexicographic order of positions (k taken modulo    *)
(* the number of permutations), so every permutation is Permute(s, k) for  *)
(* some k; the specifications draw k from small sets.                      *)
(***************************************************************************)
RECURSIVE Factorial(_)
Factorial(n) == IF n <= 1 THEN 1 ELSE n * Factorial(n - 1)

RemoveAt(s, i) == SubSeq(s, 1, i - 1) \o SubSeq(s, i + 1, Len(s))

RECURSIVE Permute(_, _)
Permute(s, k) ==
    IF Len(s) <= 1 THEN s
    ELSE LET f == Factorial(Len(s) - 1)
             i == ((k \div f) % Len(s)) + 1
         IN  <<s[i]>> \o Permute(RemoveAt(s, i), k % f)

(***************************************************************************)
(* The variation cache, src/services/gameLogic.ts                          *)
(***************************************************************************)
\* a before b in the comparator a.y - b.y || a.x - b.x
CoordBefore(a, b) == a.y < b.y \/ (a.y = b.y /\ a.x < b.x)

\* [...coords].sort(...): a stable sort, here by insertion from the left.
RECURSIVE InsertCoord(_, _)
InsertCoord(sorted, c) ==
    IF sorted = <<>> THEN <<c>>
    ELSE IF CoordBefore(c, Head(sorted)) THEN <<c>> \o sorted
    ELSE <<Head(sorted)>> \o InsertCoord(Tail(sorted), c)

RECURSIVE SortCoords(_)
SortCoords(coords) ==
    IF coords = <<>> THEN <<>>
    ELSE InsertCoord(SortCoords(SubSeq(coords, 1, Len(coords) - 1)), coords[Len(coords)])

\* A plausible slip: the anchor is the first cell as listed, not the first
\* cell in (y, x) order.
normalizeCoords_Unsorted(coords) ==
    LET offsetX == coords[1].x
        offsetY == coords[1].y
        Shift(c) == XY(c.x - offsetX, c.y - offsetY)
    IN  SeqMap(Shift, coords)

\* Lines 117-123.
normalizeCoords(coords) ==
    LET sorted == SortCoords(coords)
        offsetX == sorted[1].x
        offsetY == sorted[1].y
        Shift(c) == XY(c.x - offsetX, c.y - offsetY)
    IN  SeqMap(Shift, sorted)

\* The orientations in the order of the nested forEach: flips [false, true]
\* outside, rotations [0, 90, 180, 270] inside.
OrientationOrder ==
    << [isFlipped |-> FALSE, rotation |-> 0],  [isFlipped |-> FALSE, rotation |-> 90],
       [isFlipped |-> FALSE, rotation |-> 180], [isFlipped |-> FALSE, rotation |-> 270],
       [isFlipped |-> TRUE, rotation |-> 0],   [isFlipped |-> TRUE, rotation |-> 90],
       [isFlipped |-> TRUE, rotation |-> 180],  [isFlipped |-> TRUE, rotation |-> 270] >>

\* The body of the two forEach loops for one piece: a variation is pushed
\* unless its normalized coordinates were seen before.
RECURSIVE CollectVariations(_, _, _)
CollectVariations(pieceId, k, variations) ==
    IF k > Len(OrientationOrder) THEN variations
    ELSE LET o == OrientationOrder[k]
             rawCoords == getTransformedCoordinates(pieceId, o.rotation, o.isFlipped)
             normCoords == normalizeCoords(rawCoords)
             seen == \E i \in DOMAIN variations : variations[i].coords = normCoords
         IN  CollectVariations(pieceId, k + 1,
                 IF seen THEN variations
                 ELSE Append(variations, [rotation |-> o.rotation,
                                          isFlipped |-> o.isFlipped,
                                          coords |-> normCoords]))

\* PRECOMPUTED_VARIATIONS after precomputeVariations(), the shuffle of every
\* piece's list being the permutation numbered seed.
precomputeVariations(seed) ==
    [ id \in PieceIds |-> Permute(CollectVariations(id, 1, <<>>), seed) ]

(***************************************************************************)
(* The backtracking solver.  solveRecursively returns a record: ok is      *)
(* FALSE for the source's null; pieces is the returned list; grid is the   *)
(* caller's grid as the call leaves it (the source mutates it in place).   *)
(* marks is bookkeeping of the model, not of the source: for every         *)
(* returned piece, the cells the search set to true when it placed it.     *)
(***************************************************************************)
NewGrid == [y \in 1..GRID_ROWS |-> [x \in 1..GRID_COLS |-> FALSE]]

\* A plausible slip: the scan goes column by column, each from the top.
FirstEmpty_ColumnMajor(grid) ==
    LET cols == { x \in 0..(GRID_COLS - 1) : \E y \in 0..(GRID_ROWS - 1) : ~grid[y + 1][x + 1] }
    IN  IF cols = {} THEN -1
        ELSE LET emptyX == CHOOSE x \in cols : \A z \in cols : x <= z
                 rows == { y \in 0..(GRID_ROWS - 1) : ~grid[y + 1][emptyX + 1] }
                 emptyY == CHOOSE y \in rows : \A z \in rows : y <= z
             IN  emptyY * GRID_COLS + emptyX

\* The scan of lines 172-182: the first row, top to bottom, that holds a
\* cell that is false, and the first such cell of it, left to right, as the
\* index emptyY * GRID_COLS + emptyX; -1 if there is none (found stays false).
FirstEmpty(grid) ==
    LET rows == { y \in 0..(GRID_ROWS - 1) : \E x \in 0..(GRID_COLS - 1) : ~grid[y + 1][x + 1] }
    IN  IF rows = {} THEN -1
        ELSE LET emptyY == CHOOSE y \in rows : \A z \in rows : y <= z
                 cols == { x \in 0..(GRID_COLS - 1) : ~grid[emptyY + 1][x + 1] }
                 emptyX == CHOOSE x \in cols : \A z \in cols : x <= z
             IN  emptyY * GRID_COLS + emptyX

\* A plausible slip: the fit test looks at the grid bounds only.
Fits_BoundsOnly(grid, v, emptyX, emptyY) ==
    \A i \in DOMAIN v.coords :
        LET tx == emptyX + v.coords[i].x
            ty == emptyY + v.coords[i].y
        IN  ~(tx < 0 \/ tx >= GRID_COLS \/ ty < 0 \/ ty >= GRID_ROWS)

\* Lines 192-200.
Fits(grid, v, emptyX, emptyY) ==
    \A i \in DOMAIN v.coords :
        LET tx == emptyX + v.coords[i].x
            ty == emptyY + v.coords[i].y
        IN  ~(tx < 0 \/ tx >= GRID_COLS \/ ty < 0 \/ ty >= GRID_ROWS
              \/ grid[ty + 1][tx + 1])

\* A plausible slip: the backtracking loop writes true, as the placing loop
\* does.
SetCells_AlwaysMarks(grid, coords, i, emptyX, emptyY, value) ==
    [ y \in 1..GRID_ROWS |->
        [ x \in 1..GRID_COLS |->
            \/ grid[y][x]
            \/ \E k \in i..Len(coords) : /\ emptyY + coords[k].y + 1 = y
                                          /\ emptyX + coords[k].x + 1 = x ] ]

\* Lines 204-206 (value TRUE) and 238-240 (value FALSE).
RECURSIVE SetCells(_, _, _, _, _, _)
SetCells(grid, coords, i, emptyX, emptyY, value) ==
    IF i > Len(coords) THEN grid
    ELSE SetCells([grid EXCEPT ![emptyY + coords[i].y + 1][emptyX + coords[i].x + 1] = value],
                  coords, i + 1, emptyX, emptyY, value)

\* A plausible slip: the empty cell itself is stored as the origin.
MakePlacedPiece_NoAnchorOffset(pieceId, v, emptyX, emptyY) ==
    [ id |-> pieceId, x |-> emptyX, y |-> emptyY,
      rotation |-> v.rotation, isFlipped |-> v.isFlipped, isLocked |-> TRUE ]

\* Lines 219-222 for every orientation of every piece: the first cell of the
\* raw shape in (y, x) order.  The value depends on the orientation only, so
\* it is computed once here and looked up by MakePlacedPiece.
AnchorOffsets ==
    { [ pieceId |-> PIECE_DEFINITIONS[d].id, rotation |-> rotation, isFlipped |-> isFlipped,
        anchor |-> SortCoords(getTransformedCoordinates(PIECE_DEFINITIONS[d].id,
                                                        rotation, isFlipped))[1] ] :
        d \in DOMAIN PIECE_DEFINITIONS, rotation \in Rotations, isFlipped \in BOOLEAN }

AnchorOffset(pieceId, rotation, isFlipped) ==
    (CHOOSE a \in AnchorOffsets : /\ a.pieceId = pieceId
                                  /\ a.rotation = rotation
                                  /\ a.isFlipped = isFlipped).anchor

\* Lines 219-232: the PlacedPiece of a variation anchored at the empty cell.
MakePlacedPiece(pieceId, v, emptyX, emptyY) ==
    LET anchorOffsetX == AnchorOffset(pieceId, v.rotation, v.isFlipped).x
        anchorOffsetY == AnchorOffset(pieceId, v.rotation, v.isFlipped).y
    IN  [ id |-> pieceId,
          x |-> emptyX - anchorOffsetX,
          y |-> emptyY - anchorOffsetY,
          rotation |-> v.rotation,
          isFlipped |-> v.isFlipped,
          isLocked |-> TRUE ]

MarkedCells(v, emptyX, emptyY) ==
    { XY(emptyX + v.coords[i].x, emptyY + v.coords[i].y) : i \in DOMAIN v.coords }

RECURSIVE solveRecursively(_, _, _)
RECURSIVE TryVariations(_, _, _, _, _, _)

\* The for loop of lines 190-242 skips every variation that does not fit:
\* the index of the first variation from i on that fits, or one past the
\* list when none does.
NextFitting(grid, variations, i, emptyX, emptyY) ==
    LET fitting == { j \in i..Len(variations) : Fits(grid, variations[j], emptyX, emptyY) }
    IN  IF fitting = {} THEN Len(variations) + 1
        ELSE CHOOSE j \in fitting : \A k \in fitting : j <= k

\* The for loop of lines 190-242 from variation i on.
TryVariations(grid, remainingPieceIds, cache, i, emptyX, emptyY) ==
    LET pieceId == remainingPieceIds[1]
        restIds == Tail(remainingPieceIds)
        variations == cache[pieceId]
        j == NextFitting(grid, variations, i, emptyX, emptyY)
    IN  IF j > Len(variations)
        THEN [ok |-> FALSE, pieces |-> <<>>, marks |-> <<>>, grid |-> grid]
        ELSE LET v == variations[j]
                 placed == SetCells(grid, v.coords, 1, emptyX, emptyY, TRUE)
                 result == solveRecursively(placed, restIds, cache)
             IN  IF result.ok
                 THEN [ ok |-> TRUE,
                        pieces |-> <<MakePlacedPiece(pieceId, v, emptyX, emptyY)>>
                                   \o result.pieces,
                        marks |-> <<MarkedCells(v, emptyX, emptyY)>> \o result.marks,
                        grid |-> result.grid ]
                 ELSE TryVariations(
                          SetCells(result.grid, v.coords, 1, emptyX, emptyY, FALSE),
                          remainingPieceIds, cache, j + 1, emptyX, emptyY)

solveRecursively(grid, remainingPieceIds, cache) ==
    IF Len(remainingPieceIds) = 0
    THEN [ok |-> TRUE, pieces |-> <<>>, marks |-> <<>>, grid |-> grid]
    ELSE LET first == FirstEmpty(grid)
         IN  IF first = -1
             THEN [ok |-> TRUE, pieces |-> <<>>, marks |-> <<>>, grid |-> grid]
             ELSE TryVariations(grid, remainingPieceIds, cache, 1,
                                first % GRID_COLS, first \div GRID_COLS)

(***************************************************************************)
(* PlacementSpec: isValidPlacement applied once to inputs drawn from       *)
(* bounded sets.  The boards are those of the prefixes of the fallback     *)
(* layout; the origins reach OriginMargin cells beyond the grid on every   *)
(* side; one id is not in the catalog.                                     *)
(***************************************************************************)
OriginMargin == 1

\* The bounded sets of shuffles.  Of the piece order: the permutations with
\* these numbers; the solver fails on the first three and finds a tiling on
\* the others.  Of a variation list and of a solution: MaxVarShuffles + 1
\* and MaxSelectShuffles + 1 permutations.
OrderSeeds ==
    { 217990920, 415329795, 420887934,
      152008616, 235548408, 402776216, 477457889 }

MaxVarShuffles == 1
VariationSeeds == { i * 5167 : i \in 0..MaxVarShuffles }

MaxSelectShuffles == 2
SelectSeeds == { i * 196418273 : i \in 0..MaxSelectShuffles }

VariationTables == { precomputeVariations(seed) : seed \in VariationSeeds }

NoDrag == [pieceId |-> NULL]

NoGhost == [ghost |-> NULL]

\* The App before it is mounted (lines 34-44).
GameIdle ==
    /\ placedPieces = <<>>
    /\ loading = FALSE
    /\ level = 1
    /\ gameMode = "LEVEL"
    /\ dragState = NoDrag
    /\ ghostState = NoGhost
    /\ pendingLoads = <<>>

NoResult == [ok |-> FALSE, pieces |-> <<>>]

\* No run of the step-by-step search is in progress.
SearchIdle ==
    /\ searchPc = "idle"
    /\ searchArg = <<>>
    /\ searchStack = <<>>
    /\ searchGrid = 0
    /\ searchRet = NoResult
    /\ gridHeap = <<>>
    /\ searchRuns = <<>>

FnIdle == fnPc = "idle" /\ fnArgs = NULL /\ fnRet = NULL

LevelIdle ==
    /\ glPc = "idle"
    /\ levelNum = 0
    /\ gvbRetries = 0
    /\ fullSolution = <<>>
    /\ puzzleSetup = <<>>

UnknownId == "Z"

SampleBoards ==
    { getBoardGrid(SubSeq(FallbackChallenge, 1, k)) : k \in 0..Len(FallbackChallenge) }

PlacementInputs ==
    [ pieceId : PieceIds \cup {UnknownId},
      gridX : (0 - OriginMargin)..(GRID_COLS - 1 + OriginMargin),
      gridY : (0 - OriginMargin)..(GRID_ROWS - 1 + OriginMargin),
      rotation : Rotations,
      isFlipped : BOOLEAN,
      board : SampleBoards ]

PlacementInit ==
    /\ GameIdle
    /\ SearchIdle
    /\ PRECOMPUTED_VARIATIONS = precomputeVariations(0)
    /\ fnPc = "call"
    /\ fnArgs \in PlacementInputs
    /\ fnRet = NULL
    /\ LevelIdle

CallIsValidPlacement ==
    /\ fnPc = "call"
    /\ fnRet' = isValidPlacement(fnArgs.pieceId, fnArgs.gridX, fnArgs.gridY,
                                 fnArgs.rotation, fnArgs.isFlipped, fnArgs.board)
    /\ fnPc' = "done"
    /\ UNCHANGED <<fnArgs, PRECOMPUTED_VARIATIONS, levelVars, gameVars, searchVars>>

PlacementNext == CallIsValidPlacement

PlacementSpec == PlacementInit /\ [][PlacementNext]_vars

(***************************************************************************)
(* C1: isValidPlacement returns false if and only if at least one cell of   *)
(* the piece, transformed by (rotation, isFlipped) and translated by the   *)
(* origin, lies outside the grid or lands on a board cell that is not      *)
(* empty; it returns true otherwise.                                       *)
(***************************************************************************)
AbsoluteCells(pieceId, gridX, gridY, rotation, isFlipped) ==
    { XY(gridX + c.x, gridY + c.y) :
        c \in Range(getTransformedCoordinates(pieceId, rotation, isFlipped)) }

CellBlocked(c, board) ==
    \/ ~InGrid(c.x, c.y)
    \/ board[c.y + 1][c.x + 1] # NULL

C1_ValidIffNoCellBlocked ==
    fnPc = "done" =>
        LET cells == AbsoluteCells(fnArgs.pieceId, fnArgs.gridX, fnArgs.gridY,
                                   fnArgs.rotation, fnArgs.isFlipped)
        IN  (fnRet = FALSE) <=> (\E c \in cells : CellBlocked(c, fnArgs.board))

\* A catalog piece whose first sphere is on a free grid cell while a later
\* sphere lands on an occupied cell of a board holding a piece: rejected.
C1_Witness ==
    /\ fnPc = "done"
    /\ fnRet = FALSE
    /\ fnArgs.pieceId \in PieceIds
    /\ fnArgs.board # EmptyBoard
    /\ LET cells == AbsoluteCells(fnArgs.pieceId, fnArgs.gridX, fnArgs.gridY,
                                  fnArgs.rotation, fnArgs.isFlipped)
       IN  /\ \A c \in cells : InGrid(c.x, c.y)
           /\ \E c \in cells : fnArgs.board[c.y + 1][c.x + 1] # NULL
           /\ fnArgs.board[fnArgs.gridY + 1][fnArgs.gridX + 1] = NULL

(***************************************************************************)
(* SolverSpec: solveRecursively called once on an empty grid with a list   *)
(* of piece ids: a prefix of a shuffle of the catalog ids.                 *)
(***************************************************************************)
SolverInputs ==
    { SubSeq(Permute(allPieceIds, seed), 1, n) :
        seed \in OrderSeeds, n \in 0..Len(allPieceIds) }

SolverInit ==
    /\ GameIdle
    /\ SearchIdle
    /\ PRECOMPUTED_VARIATIONS \in VariationTables
    /\ fnPc = "call"
    /\ fnArgs \in SolverInputs
    /\ fnRet = NULL
    /\ LevelIdle

CallSolveRecursively ==
    /\ fnPc = "call"
    /\ fnRet' = solveRecursively(NewGrid, fnArgs, PRECOMPUTED_VARIATIONS)
    /\ fnPc' = "done"
    /\ UNCHANGED <<fnArgs, PRECOMPUTED_VARIATIONS, levelVars, gameVars, searchVars>>

SolverNext == CallSolveRecursively

SolverSpec == SolverInit /\ [][SolverNext]_vars

(***************************************************************************)
(* generateLevel and generateValidBoard.                                   *)
(***************************************************************************)
maxLocked == 10
minLocked == 3

Max(a, b) == IF a >= b THEN a ELSE b
Min(a, b) == IF a <= b THEN a ELSE b

\* Math.round(q) for the rational q = num / den, den > 0: floor(q + 1/2).
RoundRatio(num, den) == (2 * num + den) \div (2 * den)

\* A plausible slip: the count is truncated instead of rounded.
lockedCount_Truncated(lvl) ==
    Max(minLocked,
        Min(maxLocked, (99 * maxLocked - (lvl - 1) * (maxLocked - minLocked)) \div 99))

\* Lines 280-281.  maxLocked - ((levelNum - 1) / 99) * (maxLocked - minLocked)
\* is the rational (99 * maxLocked - (levelNum - 1) * (maxLocked - minLocked)) / 99;
\* it is never within 1/198 of a half-integer, so the source's floating
\* point rounds as the exact value does.
lockedCount(lvl) ==
    Max(minLocked,
        Min(maxLocked,
            RoundRatio(99 * maxLocked - (lvl - 1) * (maxLocked - minLocked), 99)))

\* A plausible slip: the copy keeps the id and the origin, not the orientation.
LockFirst_ResetsRotation(shuffled, count) ==
    [ i \in 1..Min(count, Len(shuffled)) |->
        [shuffled[i] EXCEPT !.isLocked = TRUE, !.rotation = 0] ]

\* Lines 288-291: shuffled.slice(0, lockedCount).map(p => ({...p, isLocked: true}))
LockFirst(shuffled, count) ==
    [ i \in 1..Min(count, Len(shuffled)) |-> [shuffled[i] EXCEPT !.isLocked = TRUE] ]

(***************************************************************************)
(* LevelSpec: calls of generateLevel.  generateValidBoard shuffles the     *)
(* piece ids and solves; on "no solution" it logs a warning and calls      *)
(* itself again.  The model counts the warnings up to MaxRetries and stops *)
(* there; the source has no such counter.                                  *)
(***************************************************************************)
MaxRetries == 2

\* The level numbers a call is made with.
LevelNums == {-5, 0, 1, 2, 8, 9, 30, 50, 51, 99, 100, 101, 1000}

LevelInit ==
    /\ GameIdle
    /\ SearchIdle
    /\ PRECOMPUTED_VARIATIONS \in VariationTables
    /\ FnIdle
    /\ LevelIdle

\* generateLevel(lvl) is entered; its first statement calls generateValidBoard.
CallGenerateLevel ==
    /\ glPc = "idle"
    /\ \E lvl \in LevelNums : levelNum' = lvl
    /\ glPc' = "generateValidBoard"
    /\ gvbRetries' = 0
    /\ fullSolution' = <<>>
    /\ puzzleSetup' = <<>>
    /\ UNCHANGED <<gameVars, searchVars, fnVars, PRECOMPUTED_VARIATIONS>>

\* One pass of generateValidBoard, lines 249-270.
generateValidBoard ==
    /\ glPc = "generateValidBoard"
    /\ gvbRetries < MaxRetries
    /\ \E seed \in OrderSeeds :
          LET shuffledIds == Permute(allPieceIds, seed)
              solution == solveRecursively(NewGrid, shuffledIds, PRECOMPUTED_VARIATIONS)
          IN  IF ~solution.ok
              THEN /\ gvbRetries' = gvbRetries + 1
                   /\ UNCHANGED <<glPc, fullSolution>>
              ELSE /\ fullSolution' = solution.pieces
                   /\ glPc' = "select"
                   /\ UNCHANGED gvbRetries
    /\ UNCHANGED <<gameVars, searchVars, fnVars, PRECOMPUTED_VARIATIONS, levelNum, puzzleSetup>>

\* Lines 278-293 of generateLevel, after generateValidBoard has returned.
SelectLockedPieces ==
    /\ glPc = "select"
    /\ \E seed \in SelectSeeds :
          LET shuffled == Permute(fullSolution, seed)
          IN  puzzleSetup' = LockFirst(shuffled, lockedCount(levelNum))
    /\ glPc' = "returned"
    /\ UNCHANGED <<gameVars, searchVars, fnVars, PRECOMPUTED_VARIATIONS, levelNum, gvbRetries, fullSolution>>

\* The caller is done with the result; the next call may come.
LevelDone ==
    /\ glPc = "returned"
    /\ glPc' = "idle"
    /\ levelNum' = 0
    /\ gvbRetries' = 0
    /\ fullSolution' = <<>>
    /\ puzzleSetup' = <<>>
    /\ UNCHANGED <<gameVars, searchVars, fnVars, PRECOMPUTED_VARIATIONS>>

LevelNext ==
    \/ CallGenerateLevel
    \/ generateValidBoard
    \/ SelectLockedPieces
    \/ LevelDone

LevelSpec == LevelInit /\ [][LevelNext]_vars

(***************************************************************************)
(* GameSpec: the interactive board of src/App.tsx.  One action is one      *)
(* event handler or timer callback together with the render and the        *)
(* effects that follow it (JavaScript runs each to completion), so the     *)
(* ref dragStateRef (lines 53-55) equals dragState in every state and is   *)
(* not a variable of its own.  Pixel positions are left out: a pointer     *)
(* move is the cell it snaps to, or a position beyond the hit margin.      *)
(***************************************************************************)
\* The callbacks of loadLevel not yet run, at most MaxPending at a time; the
\* levels the player steps through, 1..MaxLevel; the sphere a drag anchors on,
\* 0..MaxAnchorIndex.
MaxPending == 2
MaxLevel == 2
MaxAnchorIndex == 0

\* The pieces the player touches and the cells the pointer snaps to: L fits
\* the hole at (10,4) and J the hole at (7,3) of a level of GeneratedBoards.
HandPieces == {"L", "J"}
SnapCells == { XY(10, 4), XY(7, 3) }
OutsideHitMargin == XY(0 - 99, 0 - 99)

\* The variation table of the game's run, and the shuffles of the ids that
\* generateValidBoard draws in it.
GameVariations == precomputeVariations(0)
GameOrderSeeds == {477457889}

\* Lines 247-271 as a function: the tilings generateValidBoard can return (a
\* shuffle without a tiling is drawn again, lines 264-268).
GeneratedBoards ==
    LET solutions == { solveRecursively(NewGrid, Permute(allPieceIds, seed), GameVariations) :
                         seed \in GameOrderSeeds }
    IN  { solution.pieces : solution \in { r \in solutions : r.ok } }

\* Lines 273-294 as a function: the lists generateLevel(levelNum) can return.
generateLevel(lvl) ==
    { LockFirst(Permute(fullBoard, seed), lockedCount(lvl)) :
        fullBoard \in GeneratedBoards, seed \in SelectSeeds }

\* Lines 67-76.  The source sorts the ids; only membership is modelled.
bankPieceIds ==
    LET placedIds == { placedPieces[i].id : i \in DOMAIN placedPieces }
                     \cup (IF dragState # NoDrag THEN {dragState.pieceId} ELSE {})
    IN  { id \in PieceIds : id \notin placedIds }

\* Line 61.
staticBoardGrid == getBoardGrid(placedPieces)

\* prev.filter(p => p.id !== pieceId), lines 282 and 442.
RECURSIVE WithoutId(_, _)
WithoutId(pieces, pieceId) ==
    IF Len(pieces) = 0 THEN <<>>
    ELSE (IF pieces[1].id # pieceId THEN <<pieces[1]>> ELSE <<>>)
         \o WithoutId(SubSeq(pieces, 2, Len(pieces)), pieceId)

\* JavaScript's %, whose result has the sign of the dividend.
JsRem(a, n) == IF a >= 0 THEN a % n ELSE 0 - ((0 - a) % n)

GameInit ==
    /\ PRECOMPUTED_VARIATIONS = GameVariations
    /\ SearchIdle
    /\ FnIdle
    /\ LevelIdle
    \* lines 34-44, then the effect of lines 145-149 has called loadLevel(1)
    /\ placedPieces = <<>>
    /\ loading = TRUE
    /\ level = 1
    /\ gameMode = "LEVEL"
    /\ dragState = NoDrag
    /\ ghostState = NoGhost
    /\ pendingLoads = <<1>>

\* Lines 130-143: the synchronous part of loadLevel, called `times` times in
\* a row; each call leaves one callback behind.
loadLevel(lvl, times) ==
    /\ Len(pendingLoads) + times <= MaxPending
    /\ loading' = TRUE
    /\ placedPieces' = <<>>
    /\ dragState' = NoDrag
    /\ ghostState' = NoGhost
    /\ pendingLoads' = pendingLoads \o [i \in 1..times |-> lvl]

\* Lines 136-142: the oldest callback of loadLevel runs.
LoadTimerFires ==
    /\ pendingLoads # <<>>
    /\ \E levelPieces \in generateLevel(Head(pendingLoads)) :
          placedPieces' = levelPieces
    /\ loading' = FALSE
    /\ pendingLoads' = Tail(pendingLoads)
    /\ UNCHANGED <<level, gameMode, dragState, ghostState, coreVars>>

\* Line 151 and the effect of lines 145-149; the button exists in LEVEL mode.
handleNextLevel ==
    /\ gameMode = "LEVEL"
    /\ level < 100
    /\ level < MaxLevel
    /\ level' = level + 1
    /\ loadLevel(level + 1, 1)
    /\ UNCHANGED <<gameMode, coreVars>>

\* Line 152 and the effect of lines 145-149.
handlePrevLevel ==
    /\ gameMode = "LEVEL"
    /\ level > 1
    /\ level' = level - 1
    /\ loadLevel(level - 1, 1)
    /\ UNCHANGED <<gameMode, coreVars>>

\* Lines 154-162.
handleReset ==
    /\ IF gameMode = "LEVEL"
       THEN loadLevel(level, 1)
       ELSE /\ placedPieces' = <<>>
            /\ dragState' = NoDrag
            /\ UNCHANGED <<loading, ghostState, pendingLoads>>
    /\ UNCHANGED <<level, gameMode, coreVars>>

\* Lines 449-454.
handleFreeMode ==
    /\ gameMode' = "FREE"
    /\ placedPieces' = <<>>
    /\ dragState' = NoDrag
    /\ ghostState' = NoGhost
    /\ UNCHANGED <<loading, level, pendingLoads, coreVars>>

\* Line 487: setGameMode('LEVEL'); loadLevel(level).  Coming from FREE mode
\* the change of gameMode runs the effect of lines 145-149, a second
\* loadLevel(level).
handleCampaign ==
    /\ gameMode' = "LEVEL"
    /\ loadLevel(level, IF gameMode = "FREE" THEN 2 ELSE 1)
    /\ UNCHANGED <<level, coreVars>>

\* Lines 213-223.
rotatePiece(dir) ==
    /\ dragState # NoDrag
    /\ LET r == JsRem(dragState.rotation + dir, 360)
       IN  dragState' = [dragState EXCEPT !.rotation = IF r < 0 THEN r + 360 ELSE r]
    /\ UNCHANGED <<placedPieces, loading, level, gameMode, ghostState, pendingLoads, coreVars>>

\* Lines 225-231.
flipPiece ==
    /\ dragState # NoDrag
    /\ dragState' = [dragState EXCEPT !.isFlipped = ~dragState.isFlipped]
    /\ UNCHANGED <<placedPieces, loading, level, gameMode, ghostState, pendingLoads, coreVars>>

\* Lines 250-301.
handlePointerDown(pieceId, sphereIndex, fromWhere) ==
    IF dragState # NoDrag
    THEN \* lines 259-267: a second pointer turns the piece in the hand
         /\ dragState' = [dragState EXCEPT !.rotation = (dragState.rotation + 90) % 360]
         /\ UNCHANGED <<placedPieces, loading, level, gameMode, ghostState, pendingLoads>>
    ELSE LET onBoard == { i \in DOMAIN placedPieces : placedPieces[i].id = pieceId }
             found == fromWhere = "BOARD" /\ onBoard # {}
             existing == placedPieces[CHOOSE i \in onBoard : \A j \in onBoard : i <= j]
         IN  IF found /\ existing.isLocked
             THEN UNCHANGED gameVars
             ELSE /\ placedPieces' =
                        IF found
                        THEN WithoutId(placedPieces, pieceId)
                        ELSE placedPieces
                  /\ dragState' =
                        [ pieceId |-> pieceId,
                          rotation |-> IF found THEN existing.rotation ELSE 0,
                          isFlipped |-> IF found THEN existing.isFlipped ELSE FALSE,
                          anchorIndex |-> sphereIndex ]
                  /\ UNCHANGED <<loading, level, gameMode, ghostState, pendingLoads>>

\* Lines 663-677: a pointer goes down on a sphere of a piece of the bank.
PointerDownOnBank ==
    /\ \E pieceId \in bankPieceIds \cap HandPieces, sphereIndex \in 0..MaxAnchorIndex :
          handlePointerDown(pieceId, sphereIndex, "BANK")
    /\ UNCHANGED coreVars

\* Lines 553-583 and Piece.tsx lines 81-88: a pointer goes down on a sphere of
\* a piece on the board, which the loading overlay (lines 524-529) does not
\* cover; the Piece passes the event on if its entry is not locked.
PointerDownOnBoard ==
    /\ ~loading
    /\ \E i \in DOMAIN placedPieces, sphereIndex \in 0..MaxAnchorIndex :
          /\ ~placedPieces[i].isLocked
          /\ handlePointerDown(placedPieces[i].id, sphereIndex, "BOARD")
    /\ UNCHANGED coreVars

\* Lines 306-372; the listener exists while a drag is on (lines 303-304).
handleMove(snap) ==
    /\ dragState # NoDrag
    /\ IF snap = OutsideHitMargin
       THEN ghostState' = NoGhost
       ELSE LET shape == getTransformedCoordinates(dragState.pieceId, dragState.rotation,
                                                   dragState.isFlipped)
                anchorCoords == IF dragState.anchorIndex + 1 \in DOMAIN shape
                                THEN shape[dragState.anchorIndex + 1]
                                ELSE shape[1]
                proposedPieceX == snap.x - anchorCoords.x
                proposedPieceY == snap.y - anchorCoords.y
                isValid == isValidPlacement(dragState.pieceId, proposedPieceX,
                                            proposedPieceY, dragState.rotation,
                                            dragState.isFlipped, staticBoardGrid)
            IN  ghostState' = [x |-> proposedPieceX, y |-> proposedPieceY,
                               isValid |-> isValid]
    /\ UNCHANGED <<placedPieces, loading, level, gameMode, dragState, pendingLoads>>

PointerMove ==
    /\ \E snap \in SnapCells \cup {OutsideHitMargin} : handleMove(snap)
    /\ UNCHANGED coreVars

\* Lines 374-402: pointerup or pointercancel while a drag is on.
handleUp ==
    /\ dragState # NoDrag
    /\ placedPieces' =
          IF ghostState # NoGhost /\ ghostState.isValid
          THEN Append(placedPieces,
                      [ id |-> dragState.pieceId,
                        x |-> ghostState.x,
                        y |-> ghostState.y,
                        rotation |-> dragState.rotation,
                        isFlipped |-> dragState.isFlipped,
                        isLocked |-> FALSE ])
          ELSE placedPieces
    /\ dragState' = NoDrag
    /\ ghostState' = NoGhost
    /\ UNCHANGED <<loading, level, gameMode, pendingLoads, coreVars>>

\* Lines 164-211 and 417-426: key, wheel, second pointer, rotate button.
RotateDrag ==
    \E dir \in {90, 0 - 90} : rotatePiece(dir)

\* Lines 164-211 and 428-437: key, three-finger touch, flip button.
FlipDrag == flipPiece

\* Lines 439-447, with Piece.tsx line 61 and the overlay of lines 524-529.
handlePlacedRotate(p) ==
    /\ ~p.isLocked
    /\ LET nextRot == (p.rotation + 90) % 360
           tempGrid == getBoardGrid(WithoutId(placedPieces, p.id))
       IN  placedPieces' =
              IF isValidPlacement(p.id, p.x, p.y, nextRot, p.isFlipped, tempGrid)
              THEN [ i \in DOMAIN placedPieces |->
                       IF placedPieces[i].id = p.id
                       THEN [placedPieces[i] EXCEPT !.rotation = nextRot]
                       ELSE placedPieces[i] ]
              ELSE placedPieces
    /\ UNCHANGED <<loading, level, gameMode, dragState, ghostState, pendingLoads>>

DoubleClickPlaced ==
    /\ ~loading
    /\ \E i \in DOMAIN placedPieces : handlePlacedRotate(placedPieces[i])
    /\ UNCHANGED coreVars

GameNext ==
    \/ LoadTimerFires
    \/ handleNextLevel
    \/ handlePrevLevel
    \/ handleReset
    \/ handleFreeMode
    \/ handleCampaign
    \/ PointerDownOnBank
    \/ PointerDownOnBoard
    \/ PointerMove
    \/ handleUp
    \/ RotateDrag
    \/ FlipDrag
    \/ DoubleClickPlaced

GameSpec == GameInit /\ [][GameNext]_vars

(***************************************************************************)
(* Properties of a list of placed pieces.                                  *)
(***************************************************************************)
PieceCells(p) == AbsoluteCells(p.id, p.x, p.y, p.rotation, p.isFlipped)

GridCells == { XY(x, y) : x \in 0..(GRID_COLS - 1), y \in 0..(GRID_ROWS - 1) }

AllInGrid(pieces) ==
    \A i \in DOMAIN pieces : PieceCells(pieces[i]) \subseteq GridCells

NoOverlap(pieces) ==
    \A i, j \in DOMAIN pieces :
        i # j => PieceCells(pieces[i]) \cap PieceCells(pieces[j]) = {}

CoversGrid(pieces) ==
    UNION { PieceCells(pieces[i]) : i \in DOMAIN pieces } = GridCells

DistinctIds(pieces) ==
    \A i, j \in DOMAIN pieces : i # j => pieces[i].id # pieces[j].id

OnePlacementPerPiece(pieces, ids) ==
    /\ Len(pieces) = Len(ids)
    /\ \A i \in DOMAIN ids : pieces[i].id = ids[i]

(***************************************************************************)
(* C3, as stated: for any list of piece ids handed to the solver on an     *)
(* empty grid, a result other than "no solution" is an exact tiling: one   *)
(* placement for every piece of the list, and the placements cover every   *)
(* grid cell exactly once.                                                 *)
(***************************************************************************)
C3_ResultIsExactTiling ==
    (fnPc = "done" /\ fnRet.ok) =>
        /\ OnePlacementPerPiece(fnRet.pieces, fnArgs)
        /\ AllInGrid(fnRet.pieces)
        /\ NoOverlap(fnRet.pieces)
        /\ CoversGrid(fnRet.pieces)

(***************************************************************************)
(* C3, amended: for a list of distinct catalog ids handed to the solver on *)
(* an empty grid, a result other than "no solution" holds one placement    *)
(* for every piece of the list, in list order, every placement within the  *)
(* grid and no two overlapping; the placements cover every grid cell when  *)
(* the list holds all 12 catalog pieces.                                   *)
(***************************************************************************)
C3_ResultIsPacking ==
    (fnPc = "done" /\ fnRet.ok) =>
        /\ OnePlacementPerPiece(fnRet.pieces, fnArgs)
        /\ AllInGrid(fnRet.pieces)
        /\ NoOverlap(fnRet.pieces)
        /\ (Len(fnArgs) = Len(allPieceIds) => CoversGrid(fnRet.pieces))

\* The solver found a placement for each of the 12 pieces.
C3_Witness ==
    /\ fnPc = "done"
    /\ fnRet.ok
    /\ Len(fnArgs) = Len(allPieceIds)
    /\ Len(fnRet.pieces) = Len(allPieceIds)

(***************************************************************************)
(* C6: for every PlacedPiece the solver returns, getTransformedCoordinates *)
(* with the stored rotation and isFlipped, translated by the stored (x, y),*)
(* yields exactly the cells the search marked occupied for that piece.     *)
(***************************************************************************)
C6_ReplayReproducesMarkedCells ==
    (fnPc = "done" /\ fnRet.ok) =>
        /\ Len(fnRet.marks) = Len(fnRet.pieces)
        /\ \A i \in DOMAIN fnRet.pieces : PieceCells(fnRet.pieces[i]) = fnRet.marks[i]

\* A returned piece whose stored origin is not the cell it was anchored on:
\* the transformed shape's first cell in (y, x) order is not its (0, 0).
C6_Witness ==
    /\ fnPc = "done"
    /\ fnRet.ok
    /\ \E i \in DOMAIN fnRet.pieces :
          /\ XY(fnRet.pieces[i].x, fnRet.pieces[i].y) \notin fnRet.marks[i]
          /\ fnRet.pieces[i].isFlipped

(***************************************************************************)
(* C2: every list returned by generateValidBoard holds exactly 12          *)
(* PlacedPieces, one per catalog id, whose absolute cells are exactly the  *)
(* 55 grid cells, each covered exactly once.                               *)
(***************************************************************************)
ExactTiling(pieces) ==
    /\ Len(pieces) = Len(PIECE_DEFINITIONS)
    /\ { pieces[i].id : i \in DOMAIN pieces } = PieceIds
    /\ DistinctIds(pieces)
    /\ AllInGrid(pieces)
    /\ NoOverlap(pieces)
    /\ CoversGrid(pieces)

C2_FullBoardIsExactTiling ==
    glPc \in {"select", "returned"} => ExactTiling(fullSolution)

\* generateValidBoard has returned after at least one failed pass.
C2_Witness ==
    /\ glPc = "select"
    /\ gvbRetries > 0
    /\ Len(fullSolution) = 12

(***************************************************************************)
(* C4: generateLevel(levelNum) returns exactly                             *)
(* clamp(round(10 - 7 * (levelNum - 1) / 99), 3, 10) pieces, every one     *)
(* locked: 10 for level 1, 3 for level 100, the level-1 count for level 0, *)
(* the level-100 count for level 1000; the count never increases with the  *)
(* level.                                                                  *)
(***************************************************************************)
\* The integer nearest to 10 - 7 * (lvl - 1) / 99 = (997 - 7 * lvl) / 99.
Nearest(lvl) ==
    CHOOSE n \in -100..100 :
        /\ 2 * (99 * n - (997 - 7 * lvl)) <= 99
        /\ 2 * ((997 - 7 * lvl) - 99 * n) < 99

Clamp(n, lo, hi) == IF n < lo THEN lo ELSE IF n > hi THEN hi ELSE n

C4_LockedCount ==
    glPc = "returned" =>
        /\ Len(puzzleSetup) = Clamp(Nearest(levelNum), 3, 10)
        /\ \A i \in DOMAIN puzzleSetup : puzzleSetup[i].isLocked = TRUE
        /\ (levelNum = 1 => Len(puzzleSetup) = 10)
        /\ (levelNum = 100 => Len(puzzleSetup) = 3)
        /\ (levelNum = 0 => Len(puzzleSetup) = lockedCount(1))
        /\ (levelNum = 1000 => Len(puzzleSetup) = lockedCount(100))
        /\ \A higher \in levelNum..(levelNum + 120) :
              lockedCount(higher) <= Len(puzzleSetup)

\* A level strictly between the clamped ends, where rounding decides.
C4_Witness ==
    /\ glPc = "returned"
    /\ levelNum = 50
    /\ Len(puzzleSetup) = 7

(***************************************************************************)
(* C5: the pieces returned by generateLevel have pairwise distinct ids and *)
(* are taken, with unchanged origin and orientation, from one full tiling  *)
(* produced by generateValidBoard; they lie within the grid and do not     *)
(* overlap, and the catalog pieces not returned can be placed so as to     *)
(* complete the board.                                                     *)
(***************************************************************************)
SamePlacement(p, q) ==
    /\ p.id = q.id
    /\ p.x = q.x
    /\ p.y = q.y
    /\ p.rotation = q.rotation
    /\ p.isFlipped = q.isFlipped

C5_SetupIsPartOfOneTiling ==
    glPc = "returned" =>
        /\ DistinctIds(puzzleSetup)
        /\ \A i \in DOMAIN puzzleSetup :
              \E j \in DOMAIN fullSolution : SamePlacement(puzzleSetup[i], fullSolution[j])
        /\ AllInGrid(puzzleSetup)
        /\ NoOverlap(puzzleSetup)
        /\ LET rest == { j \in DOMAIN fullSolution :
                            \A i \in DOMAIN puzzleSetup :
                                puzzleSetup[i].id # fullSolution[j].id }
           IN  /\ { fullSolution[j].id : j \in rest }
                     = PieceIds \ { puzzleSetup[i].id : i \in DOMAIN puzzleSetup }
               /\ UNION { PieceCells(fullSolution[j]) : j \in rest }
                     = GridCells \ UNION { PieceCells(puzzleSetup[i]) : i \in DOMAIN puzzleSetup }

\* A setup that is a proper part of the tiling, in an order other than the
\* solver's.
C5_Witness ==
    /\ glPc = "returned"
    /\ Len(puzzleSetup) = 3
    /\ puzzleSetup[1].id # fullSolution[1].id

(***************************************************************************)
(* C7: generateValidBoard retries with a fresh shuffle only a bounded      *)
(* number of times: when the solver reports no solution for every shuffle  *)
(* tried, the retries are capped and the call ends with a hard failure.    *)
(* Stated for the budget MaxRetries: a call that has used it up has failed.*)
(***************************************************************************)
C7_RetriesCapped ==
    gvbRetries >= MaxRetries => glPc = "failed"

(***************************************************************************)
(* C8, as stated: in every state of the game no two pieces of the          *)
(* placed-piece list occupy a common grid cell.                            *)
(***************************************************************************)
C8_NoTwoPiecesShareACell == NoOverlap(placedPieces)

(***************************************************************************)
(* C9, as stated: in every state of the game every cell of every piece of  *)
(* the placed-piece list lies within 0 <= x < 11 and 0 <= y < 5.           *)
(***************************************************************************)
C9_EveryPieceWithinGrid == AllInGrid(placedPieces)

(***************************************************************************)
(* C10, as stated: in every state of the game a piece id occurs in at most *)
(* one entry of the placed-piece list, and no piece is on the board and at *)
(* the same time in the bank or in the player's hand.                      *)
(***************************************************************************)
C10_PieceInOnePlaceOnly ==
    LET onBoard == { placedPieces[i].id : i \in DOMAIN placedPieces }
    IN  /\ DistinctIds(placedPieces)
        /\ onBoard \cap bankPieceIds = {}
        /\ dragState # NoDrag => dragState.pieceId \notin onBoard

(***************************************************************************)
(* C11, as stated: a step of the game that puts a player's piece on the    *)
(* board, or turns one that lies there, is taken only if isValidPlacement  *)
(* holds for the entry as committed (id, origin, rotation, flip) against   *)
(* the board of the moment of the commit without that piece.               *)
(***************************************************************************)
PlayerCommits(before, after) ==
    { after[i] : i \in { j \in DOMAIN after :
                           /\ ~after[j].isLocked
                           /\ after[j] \notin Range(before) } }

C11_CommitIsRevalidated ==
    [][ \A p \in PlayerCommits(placedPieces, placedPieces') :
           isValidPlacement(p.id, p.x, p.y, p.rotation, p.isFlipped,
                            getBoardGrid(WithoutId(placedPieces, p.id))) ]_vars

(***************************************************************************)
(* C12, as stated: a step of the player (pointer-down on the bank or on    *)
(* the board, pointer move, rotate or flip in the hand, release,           *)
(* double-click) leaves every locked entry of the placed-piece list as it  *)
(* is: the entry is in the list after the step with the same id, origin,   *)
(* rotation and flip.                                                      *)
(***************************************************************************)
PlayerStep ==
    \/ PointerDownOnBank
    \/ PointerDownOnBoard
    \/ PointerMove
    \/ handleUp
    \/ RotateDrag
    \/ FlipDrag
    \/ DoubleClickPlaced

C12_LockedEntriesUnchanged ==
    [][ PlayerStep =>
          \A i \in DOMAIN placedPieces :
             placedPieces[i].isLocked => placedPieces[i] \in Range(placedPieces') ]_vars

(***************************************************************************)
(* C13: for every catalog piece the cached variation list has between 1    *)
(* and 8 entries, no two entries have the same cell set, and the length is *)
(* the number of distinct shapes, up to translation, among the 8 images of *)
(* the piece under 4 rotations and 2 flip states.                          *)
(***************************************************************************)
\* A cell set moved so that its least x and its least y are 0.
BoxAligned(cells) ==
    LET minX == CHOOSE a \in { c.x : c \in cells } : \A c \in cells : a <= c.x
        minY == CHOOSE b \in { c.y : c \in cells } : \A c \in cells : b <= c.y
    IN  { XY(c.x - minX, c.y - minY) : c \in cells }

ImagesUpToTranslation(pieceId) ==
    { BoxAligned(Range(getTransformedCoordinates(pieceId, rotation, isFlipped))) :
        rotation \in Rotations, isFlipped \in BOOLEAN }

C13_CacheHoldsEachShapeOnce ==
    \A pieceId \in PieceIds :
       LET variations == PRECOMPUTED_VARIATIONS[pieceId]
       IN  /\ Len(variations) >= 1
           /\ Len(variations) <= 8
           /\ \A i, j \in DOMAIN variations :
                 i # j => Range(variations[i].coords) # Range(variations[j].coords)
           /\ Len(variations) = Cardinality(ImagesUpToTranslation(pieceId))

\* The cache is filled; it holds a piece with fewer than 8 shapes and one with 8.
C13_Witness ==
    /\ DOMAIN PRECOMPUTED_VARIATIONS = PieceIds
    /\ \E pieceId \in PieceIds : Len(PRECOMPUTED_VARIATIONS[pieceId]) < 8
    /\ \E pieceId \in PieceIds : Len(PRECOMPUTED_VARIATIONS[pieceId]) = 8
    /\ fnPc = "done"

(***************************************************************************)
(* TransformSpec: calls of getTransformedCoordinates for every catalog     *)
(* piece and one id that is not in the catalog, in the 8 orientations.     *)
(***************************************************************************)
TransformInputs ==
    [ pieceId : PieceIds \cup {UnknownId}, rotation : Rotations, isFlipped : BOOLEAN ]

TransformInit ==
    /\ GameIdle
    /\ SearchIdle
    /\ PRECOMPUTED_VARIATIONS = precomputeVariations(0)
    /\ fnPc = "call"
    /\ fnArgs \in TransformInputs
    /\ fnRet = NULL
    /\ LevelIdle

CallGetTransformedCoordinates ==
    /\ fnPc = "call"
    /\ fnRet' = getTransformedCoordinates(fnArgs.pieceId, fnArgs.rotation, fnArgs.isFlipped)
    /\ fnPc' = "done"
    /\ UNCHANGED <<fnArgs, PRECOMPUTED_VARIATIONS, levelVars, gameVars, searchVars>>

TransformNext == CallGetTransformedCoordinates

TransformSpec == TransformInit /\ [][TransformNext]_vars

(***************************************************************************)
(* C14: for a catalog piece and a rotation of 0, 90, 180 or 270,           *)
(* getTransformedCoordinates returns the initial shape, cell by cell, with *)
(* x negated when isFlipped and then (x, y) -> (-y, x) applied rotation/90 *)
(* times, with no translation; for an id that is not in the catalog it     *)
(* returns the empty list.                                                 *)
(***************************************************************************)
\* (x, y) -> (-y, x) applied rotation / 90 times, written out.
QuarterTurns(c, rotation) ==
    CASE rotation = 0   -> XY(c.x, c.y)
      [] rotation = 90  -> XY(0 - c.y, c.x)
      [] rotation = 180 -> XY(0 - c.x, 0 - c.y)
      [] rotation = 270 -> XY(c.y, 0 - c.x)

C14_FlipThenQuarterTurns ==
    fnPc = "done" =>
       LET defs == { i \in DOMAIN PIECE_DEFINITIONS :
                       PIECE_DEFINITIONS[i].id = fnArgs.pieceId }
       IN  IF defs = {}
           THEN fnRet = <<>>
           ELSE \E i \in defs :
                   LET shape == PIECE_DEFINITIONS[i].initialShape
                   IN  /\ Len(fnRet) = Len(shape)
                       /\ \A k \in DOMAIN shape :
                             fnRet[k] = QuarterTurns(
                                           XY(IF fnArgs.isFlipped THEN 0 - shape[k].x
                                              ELSE shape[k].x, shape[k].y),
                                           fnArgs.rotation)

\* A flipped catalog piece turned by 270 has been transformed.
C14_Witness ==
    /\ fnPc = "done"
    /\ fnArgs.pieceId \in PieceIds
    /\ fnArgs.isFlipped
    /\ fnArgs.rotation = 270
    /\ Len(fnRet) = 5

(***************************************************************************)
(* SearchSpec: solveRecursively step by step.  searchStack holds the       *)
(* frames of the calls that are inside their for loop, the outermost       *)
(* first: the list the call received, the empty cell it found, and i, the  *)
(* index (from 1) of the variation the loop is at.  searchGrid refers to   *)
(* the one grid all frames were passed, searchArg is the list of a call    *)
(* being made, and searchRet what the last finished call returned (ok      *)
(* FALSE: null).  A frame also keeps entryGrid, the cells of the grid as   *)
(* they were when the call was entered: a record of the past that no step  *)
(* reads, kept for the properties that compare the grid with it.           *)
(***************************************************************************)
\* A plausible slip: the loop stays on the variation it has tried.
NextIndex_Same(i) == i

\* A plausible slip: the loop passes over every second variation.
NextIndex_SkipsOne(i) == i + 2

\* Line 190: the loop goes on to the next variation.
NextIndex(i) == i + 1

TopFrame == searchStack[Len(searchStack)]

Pop(stack) == SubSeq(stack, 1, Len(stack) - 1)

SetTopIndex(stack, i) == [stack EXCEPT ![Len(stack)].i = i]

FrameVariations(frame) == PRECOMPUTED_VARIATIONS[frame.remainingPieceIds[1]]

\* A plausible slip: one grid, made once, that every call works on.
AllocGrid_Shared(heap) == IF heap = <<>> THEN <<NewGrid>> ELSE heap

\* Line 249: every call of generateValidBoard makes a grid of its own, all
\* cells false.  The new grid is the last of the heap.
AllocGrid(heap) == Append(heap, NewGrid)

\* Line 262: a call of solveRecursively by generateValidBoard, not yet back:
\* the list and the grid it is given.
NewRun(ids, grid) ==
    [remainingPieceIds |-> ids, grid |-> grid, returned |-> FALSE, solution |-> NoResult]

\* Lines 249-262: generateValidBoard makes its grid and calls the solver on
\* the shuffled ids.
StartRun(ids) ==
    /\ gridHeap' = AllocGrid(gridHeap)
    /\ searchGrid' = Len(gridHeap')
    /\ searchArg' = ids
    /\ searchRuns' = Append(searchRuns, NewRun(ids, searchGrid'))
    /\ searchPc' = "call"

SearchInit ==
    /\ GameIdle
    /\ PRECOMPUTED_VARIATIONS \in VariationTables
    /\ FnIdle
    /\ LevelIdle
    /\ searchPc = "call"
    /\ searchArg \in SolverInputs
    /\ searchStack = <<>>
    /\ gridHeap = AllocGrid(<<>>)
    /\ searchGrid = Len(gridHeap)
    /\ searchRet = NoResult
    /\ searchRuns = <<NewRun(searchArg, searchGrid)>>

\* Lines 158-188: a call is entered.  It returns [] at once for an empty list
\* or a full grid; otherwise it starts its loop at the first variation.
SearchEnter ==
    /\ searchPc = "call"
    /\ LET first == FirstEmpty(gridHeap[searchGrid])
       IN  IF Len(searchArg) = 0 \/ first = -1
           THEN /\ searchRet' = [ok |-> TRUE, pieces |-> <<>>]
                /\ searchPc' = "return"
                /\ UNCHANGED searchStack
           ELSE /\ searchStack' = Append(searchStack,
                                    [ remainingPieceIds |-> searchArg,
                                      emptyX |-> first % GRID_COLS,
                                      emptyY |-> first \div GRID_COLS,
                                      i |-> 1,
                                      entryGrid |-> gridHeap[searchGrid] ])
                /\ searchPc' = "loop"
                /\ UNCHANGED searchRet
    /\ UNCHANGED <<searchArg, searchGrid, gridHeap, searchRuns,
                   fnVars, PRECOMPUTED_VARIATIONS, levelVars, gameVars>>

\* Lines 190-209 and 244: one pass of the for loop of the innermost call, up
\* to its recursive call; past the last variation the call returns null.
SearchLoop ==
    /\ searchPc = "loop"
    /\ LET frame == TopFrame
           variations == FrameVariations(frame)
       IN  IF frame.i > Len(variations)
           THEN /\ searchStack' = Pop(searchStack)
                /\ searchRet' = [ok |-> FALSE, pieces |-> <<>>]
                /\ searchPc' = "return"
                /\ UNCHANGED <<searchArg, gridHeap>>
           ELSE IF Fits(gridHeap[searchGrid], variations[frame.i], frame.emptyX, frame.emptyY)
           THEN /\ gridHeap' = [gridHeap EXCEPT ![searchGrid] =
                                   SetCells(@, variations[frame.i].coords, 1,
                                            frame.emptyX, frame.emptyY, TRUE)]
                /\ searchArg' = Tail(frame.remainingPieceIds)
                /\ searchPc' = "call"
                /\ UNCHANGED <<searchStack, searchRet>>
           ELSE /\ searchStack' = SetTopIndex(searchStack, NextIndex(frame.i))
                /\ UNCHANGED <<searchPc, searchArg, gridHeap, searchRet>>
    /\ UNCHANGED <<searchGrid, searchRuns, fnVars, PRECOMPUTED_VARIATIONS, levelVars, gameVars>>

\* Lines 216-240: the recursive call of the innermost frame has returned.  On
\* a result the frame returns its piece in front of it; on null it clears the
\* cells of its variation and goes on with the next one.
SearchResume ==
    /\ searchPc = "return"
    /\ searchStack # <<>>
    /\ LET frame == TopFrame
           v == FrameVariations(frame)[frame.i]
       IN  IF searchRet.ok
           THEN /\ searchRet' = [ ok |-> TRUE,
                                  pieces |-> <<MakePlacedPiece(frame.remainingPieceIds[1], v,
                                                               frame.emptyX, frame.emptyY)>>
                                             \o searchRet.pieces ]
                /\ searchStack' = Pop(searchStack)
                /\ UNCHANGED <<searchPc, gridHeap>>
           ELSE /\ gridHeap' = [gridHeap EXCEPT ![searchGrid] =
                                   SetCells(@, v.coords, 1,
                                            frame.emptyX, frame.emptyY, FALSE)]
                /\ searchStack' = SetTopIndex(searchStack, NextIndex(frame.i))
                /\ searchPc' = "loop"
                /\ UNCHANGED searchRet
    /\ UNCHANGED <<searchArg, searchGrid, searchRuns,
                   fnVars, PRECOMPUTED_VARIATIONS, levelVars, gameVars>>

\* The outermost call returns to its caller (line 262).
SearchDone ==
    /\ searchPc = "return"
    /\ searchStack = <<>>
    /\ searchPc' = "returned"
    /\ searchRuns' = [searchRuns EXCEPT ![Len(searchRuns)] =
                         [@ EXCEPT !.returned = TRUE, !.solution = searchRet]]
    /\ UNCHANGED <<searchArg, searchStack, searchGrid, searchRet, gridHeap,
                   fnVars, PRECOMPUTED_VARIATIONS, levelVars, gameVars>>

SearchNext ==
    \/ SearchEnter
    \/ SearchLoop
    \/ SearchResume
    \/ SearchDone

SearchSpec == SearchInit /\ [][SearchNext]_vars

\* The engine runs a synchronous call to its end: a step that can be taken is
\* taken.
SearchFairSpec == SearchSpec /\ WF_vars(SearchNext)

(***************************************************************************)
(* C15: every call of the solver on a finite piece list terminates, with a *)
(* solution or with "no solution"; each recursive call receives a list one *)
(* shorter than its caller's, and a frame that resumes after a failed      *)
(* recursive call moves on to a later variation and never back.            *)
(***************************************************************************)
C15_SolverTerminates ==
    /\ <>(searchPc = "returned")
    /\ [][ /\ searchPc' = "call" =>
                /\ searchStack # <<>>
                /\ Len(searchArg') = Len(TopFrame.remainingPieceIds) - 1
           /\ \A k \in DOMAIN searchStack \cap DOMAIN searchStack' :
                 /\ searchStack'[k].i >= searchStack[k].i
                 /\ searchStack'[k].remainingPieceIds = searchStack[k].remainingPieceIds
           /\ (searchPc = "return" /\ searchPc' = "loop") =>
                 searchStack'[Len(searchStack')].i > TopFrame.i ]_vars

\* A search over all 12 pieces that had to backtrack has returned.
C15_Witness ==
    /\ searchPc = "returned"
    /\ Len(searchArg) = 0
    /\ searchRet.ok
    /\ Len(searchRet.pieces) = Len(PIECE_DEFINITIONS)
    /\ gridHeap[searchGrid] # NewGrid

(***************************************************************************)
(* RerunSpec: generateValidBoard called again and again, as every level    *)
(* load does.  Each call shuffles the ids, makes its grid and runs the     *)
(* solver; the variation table is the one built when the module loaded.    *)
(***************************************************************************)
MaxRuns == 2

\* The shuffles of all 12 ids that line 252 can produce, bounded.
RerunInputs == { Permute(allPieceIds, seed) : seed \in OrderSeeds }

RerunInit ==
    /\ GameIdle
    /\ PRECOMPUTED_VARIATIONS \in VariationTables
    /\ FnIdle
    /\ LevelIdle
    /\ searchPc = "call"
    /\ searchArg \in RerunInputs
    /\ searchStack = <<>>
    /\ gridHeap = AllocGrid(<<>>)
    /\ searchGrid = Len(gridHeap)
    /\ searchRet = NoResult
    /\ searchRuns = <<NewRun(searchArg, searchGrid)>>

\* Lines 247-262: the next call of generateValidBoard, up to its call of the
\* solver.
SearchAgain ==
    /\ searchPc = "returned"
    /\ Len(searchRuns) < MaxRuns
    /\ \E ids \in RerunInputs : StartRun(ids)
    /\ UNCHANGED <<searchStack, searchRet, fnVars, PRECOMPUTED_VARIATIONS, levelVars, gameVars>>

RerunNext ==
    \/ SearchEnter
    \/ SearchLoop
    \/ SearchResume
    \/ SearchDone
    \/ SearchAgain

RerunSpec == RerunInit /\ [][RerunNext]_vars

(***************************************************************************)
(* C16: the solver is deterministic.  Two runs that start on an empty grid *)
(* with the same piece order, under the same variation table, return the   *)
(* same result, placement by placement; and that result is the value of    *)
(* solveRecursively as a function of the order and the table.              *)
(***************************************************************************)
C16_SameInputsSameResult ==
    /\ \A a, b \in DOMAIN searchRuns :
          ( /\ searchRuns[a].returned
            /\ searchRuns[b].returned
            /\ searchRuns[a].remainingPieceIds = searchRuns[b].remainingPieceIds )
          => searchRuns[a].solution = searchRuns[b].solution
    /\ (searchPc = "returned" /\ Len(searchRuns) = MaxRuns) =>
          LET r == solveRecursively(NewGrid, searchRuns[MaxRuns].remainingPieceIds,
                                    PRECOMPUTED_VARIATIONS)
          IN  /\ searchRet.ok = r.ok
              /\ r.ok => searchRet.pieces = r.pieces

\* Two runs with the same order have both returned a tiling of 12 pieces.
C16_Witness ==
    /\ Len(searchRuns) = 2
    /\ searchRuns[1].returned
    /\ searchRuns[2].returned
    /\ searchRuns[1].remainingPieceIds = searchRuns[2].remainingPieceIds
    /\ searchRuns[2].solution.ok
    /\ Len(searchRuns[2].solution.pieces) = Len(PIECE_DEFINITIONS)

(***************************************************************************)
(* LoadSpec: the level loads of App.tsx with the solver taken step by      *)
(* step.  The buttons call loadLevel, which leaves a callback behind; a    *)
(* callback runs generateLevel, which runs generateValidBoard, which makes *)
(* a grid and runs the solver, again after a failure (lines 264-268).  The *)
(* callback is synchronous code: no handler and no other callback runs     *)
(* before it has returned.                                                 *)
(***************************************************************************)
\* The shuffles of line 252 drawn here: one without a tiling, one with.
LoadOrderSeeds == { 217990920, 152008616 }
LoadInputs == { Permute(allPieceIds, seed) : seed \in LoadOrderSeeds }

\* No callback is on the call stack: the event loop may run the next task.
NoTaskRunning == glPc = "idle"

LoadInit ==
    /\ PRECOMPUTED_VARIATIONS = GameVariations
    /\ SearchIdle
    /\ FnIdle
    /\ LevelIdle
    \* lines 34-44, then the effect of lines 145-149 has called loadLevel(1)
    /\ placedPieces = <<>>
    /\ loading = TRUE
    /\ level = 1
    /\ gameMode = "LEVEL"
    /\ dragState = NoDrag
    /\ ghostState = NoGhost
    /\ pendingLoads = <<1>>

\* A click on one of the buttons that load a level, or on Free Play.
LoadRequest ==
    /\ NoTaskRunning
    /\ \/ handleNextLevel
       \/ handlePrevLevel
       \/ handleReset
       \/ handleCampaign
       \/ handleFreeMode

\* App.tsx lines 136-137, then gameLogic.ts lines 275 and 247-262: the oldest
\* callback starts and gets as far as its call of the solver.
LoadTimerStarts ==
    /\ NoTaskRunning
    /\ pendingLoads # <<>>
    /\ Len(searchRuns) < MaxRuns
    /\ levelNum' = Head(pendingLoads)
    /\ pendingLoads' = Tail(pendingLoads)
    /\ glPc' = "generateValidBoard"
    /\ gvbRetries' = 0
    /\ \E ids \in LoadInputs : StartRun(ids)
    /\ UNCHANGED <<searchStack, searchRet, fullSolution, puzzleSetup, fnVars,
                   PRECOMPUTED_VARIATIONS, placedPieces, loading, level, gameMode,
                   dragState, ghostState>>

\* Lines 264-268: the solver has returned null; generateValidBoard calls
\* itself, with a new grid and a new shuffle.
LoadRetries ==
    /\ glPc = "generateValidBoard"
    /\ searchPc = "returned"
    /\ ~searchRet.ok
    /\ Len(searchRuns) < MaxRuns
    /\ gvbRetries' = gvbRetries + 1
    /\ \E ids \in LoadInputs : StartRun(ids)
    /\ UNCHANGED <<searchStack, searchRet, glPc, levelNum, fullSolution, puzzleSetup,
                   fnVars, PRECOMPUTED_VARIATIONS, gameVars>>

\* Line 270, lines 278-293 and App.tsx lines 138-139: the solver has returned a
\* board; the callback selects the locked pieces, sets them and ends.
LoadTimerEnds ==
    /\ glPc = "generateValidBoard"
    /\ searchPc = "returned"
    /\ searchRet.ok
    /\ \E seed \in SelectSeeds :
          placedPieces' = LockFirst(Permute(searchRet.pieces, seed), lockedCount(levelNum))
    /\ loading' = FALSE
    /\ glPc' = "idle"
    /\ searchPc' = "idle"
    /\ levelNum' = 0
    /\ gvbRetries' = 0
    /\ UNCHANGED <<searchArg, searchStack, searchGrid, searchRet, gridHeap, searchRuns,
                   fullSolution, puzzleSetup, fnVars, PRECOMPUTED_VARIATIONS,
                   level, gameMode, dragState, ghostState, pendingLoads>>

LoadNext ==
    \/ LoadRequest
    \/ LoadTimerStarts
    \/ SearchEnter
    \/ SearchLoop
    \/ SearchResume
    \/ SearchDone
    \/ LoadRetries
    \/ LoadTimerEnds

LoadSpec == LoadInit /\ [][LoadNext]_vars

(***************************************************************************)
(* C17: the grid of a search belongs to one solve in flight.  Whatever the *)
(* level loads requested and the retries made, at most one run of the      *)
(* solver has not returned; each run has a grid no other run was given;    *)
(* the run in flight reads its own grid, and a step changes no grid but    *)
(* the grid of the run in flight.                                          *)
(***************************************************************************)
ActiveRuns == { k \in DOMAIN searchRuns : ~searchRuns[k].returned }

C17_OneSolveOwnsItsGrid ==
    /\ [](Cardinality(ActiveRuns) <= 1)
    /\ [](\A a, b \in DOMAIN searchRuns : a # b => searchRuns[a].grid # searchRuns[b].grid)
    /\ [](\A k \in ActiveRuns : searchGrid = searchRuns[k].grid)
    /\ [][ \A g \in DOMAIN gridHeap :
              gridHeap'[g] # gridHeap[g] => \E k \in ActiveRuns : searchRuns[k].grid = g ]_vars

\* A second run is in its loop and has marked cells of its grid, after a run
\* that has returned, while a further load is still waiting.
C17_Witness ==
    /\ Len(searchRuns) = 2
    /\ searchRuns[1].returned
    /\ ~searchRuns[2].returned
    /\ searchPc = "loop"
    /\ gridHeap[searchRuns[2].grid] # NewGrid
    /\ pendingLoads # <<>>

(***************************************************************************)
(* ChallengeSpec: one call of generateChallenge, lines 303-364, statement  *)
(* by statement.  fnArgs is what the service will do in this call, fnPc    *)
(* the statement the call is at, fnRet how the promise is settled.         *)
(***************************************************************************)
MaxItems == 2

\* The values a JSON text can denote, as far as the function looks at them.
JsonNull == [type |-> "null"]
JsonNumber == [type |-> "number", value |-> 7]
JsonObject == [type |-> "object"]
ItemObjects ==
    { [type |-> "object", id |-> "C", x |-> 1, y |-> 1, rotation |-> r, isFlipped |-> f] :
        r \in {0, 450, 0 - 90}, f \in BOOLEAN }
JsonItems == {JsonNull} \cup ItemObjects
JsonArrays ==
    { [type |-> "array", items |-> items] :
        items \in UNION { [1..n -> JsonItems] : n \in 0..MaxItems } }
JsonValues == {JsonNull, JsonNumber, JsonObject} \cup JsonArrays

\* response.text: missing, the empty string, a text that is no JSON, or the
\* JSON text of a value.
ResponseTexts ==
    { [kind |-> "undefined"], [kind |-> "empty"], [kind |-> "malformed"] }
    \cup { [kind |-> "json", denotes |-> value] : value \in JsonValues }

\* What the service does in one call: the client's constructor throws, the
\* request is rejected, or a response arrives.
ServiceOutcomes ==
    { [kind |-> "constructorThrows"], [kind |-> "requestRejected"] }
    \cup { [kind |-> "response", text |-> text] : text \in ResponseTexts }

\* JSON.parse, line 346: the value of a JSON text; a SyntaxError otherwise.
JsonParse(text) ==
    IF text.kind = "json" THEN [threw |-> FALSE, data |-> text.denotes]
    ELSE [threw |-> TRUE, data |-> JsonNull]

\* Lines 347-353 for one element of the array; reading a property of null
\* throws a TypeError.
MapItemThrows(p) == p.type = "null"
MapItem(p) ==
    [id |-> p.id, x |-> p.x, y |-> p.y,
     rotation |-> JsRem(p.rotation, 360), isFlipped |-> p.isFlipped]

\* data.map(...), lines 347-353: map is a method of arrays only.
MapDataThrows(data) ==
    \/ data.type # "array"
    \/ \E i \in DOMAIN data.items : MapItemThrows(data.items[i])

\* A plausible slip: the try block ends after the await; parsing and mapping
\* are outside it.
OnThrow_AfterTryBlock(statement) ==
    IF statement \in {"parse", "map"} THEN "rejected" ELSE "catch"

\* Lines 304 and 354: where a throwing statement leads.  Every statement of
\* lines 305-353 is inside the try block, so whatever it throws is caught at
\* line 354; "rejected" would be an error that leaves the function and
\* rejects its promise.
OnThrow(statement) == "catch"

Pending == [state |-> "pending"]

ChallengeInit ==
    /\ GameIdle
    /\ SearchIdle
    /\ PRECOMPUTED_VARIATIONS = GameVariations
    /\ LevelIdle
    /\ fnPc = "client"
    /\ fnArgs \in ServiceOutcomes
    /\ fnRet = Pending

\* Line 305.
MakeClient ==
    /\ fnPc = "client"
    /\ fnPc' = IF fnArgs.kind = "constructorThrows" THEN OnThrow("client") ELSE "await"
    /\ UNCHANGED <<fnArgs, fnRet, PRECOMPUTED_VARIATIONS, levelVars, gameVars, searchVars>>

\* Lines 322-342.
AwaitResponse ==
    /\ fnPc = "await"
    /\ fnPc' = IF fnArgs.kind = "requestRejected" THEN OnThrow("await") ELSE "text"
    /\ UNCHANGED <<fnArgs, fnRet, PRECOMPUTED_VARIATIONS, levelVars, gameVars, searchVars>>

\* Line 344: undefined and the empty string are both falsy.
CheckText ==
    /\ fnPc = "text"
    /\ fnPc' = IF fnArgs.text.kind \in {"undefined", "empty"} THEN OnThrow("text") ELSE "parse"
    /\ UNCHANGED <<fnArgs, fnRet, PRECOMPUTED_VARIATIONS, levelVars, gameVars, searchVars>>

\* Line 346.
ParseText ==
    /\ fnPc = "parse"
    /\ fnPc' = IF JsonParse(fnArgs.text).threw THEN OnThrow("parse") ELSE "map"
    /\ UNCHANGED <<fnArgs, fnRet, PRECOMPUTED_VARIATIONS, levelVars, gameVars, searchVars>>

\* Lines 347-353: the function returns the mapped array.
MapData ==
    /\ fnPc = "map"
    /\ LET data == JsonParse(fnArgs.text).data
       IN  IF MapDataThrows(data)
           THEN /\ fnPc' = OnThrow("map")
                /\ UNCHANGED fnRet
           ELSE /\ fnPc' = "settled"
                /\ fnRet' = [state |-> "fulfilled", value |-> SeqMap(MapItem, data.items)]
    /\ UNCHANGED <<fnArgs, PRECOMPUTED_VARIATIONS, levelVars, gameVars, searchVars>>

\* Lines 354-363: the catch block returns the static layout.
CatchError ==
    /\ fnPc = "catch"
    /\ fnPc' = "settled"
    /\ fnRet' = [state |-> "fulfilled", value |-> FallbackChallenge]
    /\ UNCHANGED <<fnArgs, PRECOMPUTED_VARIATIONS, levelVars, gameVars, searchVars>>

ChallengeNext ==
    \/ MakeClient
    \/ AwaitResponse
    \/ CheckText
    \/ ParseText
    \/ MapData
    \/ CatchError

ChallengeSpec == ChallengeInit /\ [][ChallengeNext]_vars

(***************************************************************************)
(* C18: generateChallenge never fails towards its caller.  No error leaves *)
(* the function; when the service throws, is rejected, answers without     *)
(* text or with text that is no JSON, the promise is fulfilled with the    *)
(* static layout of C, J and E.                                            *)
(***************************************************************************)
ServiceFails(outcome) ==
    \/ outcome.kind \in {"constructorThrows", "requestRejected"}
    \/ /\ outcome.kind = "response"
       /\ outcome.text.kind \in {"undefined", "empty", "malformed"}

C18_FailureFallsBackToStaticLayout ==
    /\ fnPc # "rejected"
    /\ fnPc = "settled" =>
          /\ fnRet.state = "fulfilled"
          /\ ServiceFails(fnArgs) =>
                /\ fnRet.value = FallbackChallenge
                /\ [i \in 1..3 |-> fnRet.value[i].id] = <<"C", "J", "E">>

\* The call has settled after a response whose text was no JSON.
C18_Witness ==
    /\ fnPc = "settled"
    /\ fnArgs.kind = "response"
    /\ fnArgs.text.kind = "malformed"
    /\ fnRet.value = FallbackChallenge

(***************************************************************************)
(* C19: the scenario of piece L, shape (0,0), (1,0), (0,1), at rotation 90 *)
(* and not flipped.  At origin (2,2) its cells are the shape's points      *)
(* taken once through (x, y) -> (-y, x) and moved by (2,2), that is (2,2), *)
(* (2,3), (1,2); isValidPlacement on the empty board is true at origin     *)
(* (2,2) and false at origin (10,4).                                       *)
(***************************************************************************)
ScenarioShape == << XY(0, 0), XY(1, 0), XY(0, 1) >>

ScenarioCall(gridX, gridY) ==
    /\ fnPc = "done"
    /\ fnArgs = [ pieceId |-> "L", gridX |-> gridX, gridY |-> gridY, rotation |-> 90,
                  isFlipped |-> FALSE, board |-> EmptyBoard ]

C19_ScenarioOfPieceL ==
    /\ PIECE_DEFINITIONS[FindDef("L")].initialShape = ScenarioShape
    /\ AbsoluteCells("L", 2, 2, 90, FALSE)
         = { XY(2 - p.y, 2 + p.x) : p \in Range(ScenarioShape) }
    /\ AbsoluteCells("L", 2, 2, 90, FALSE) = { XY(2, 2), XY(2, 3), XY(1, 2) }
    /\ ScenarioCall(2, 2) => fnRet = TRUE
    /\ ScenarioCall(10, 4) => fnRet = FALSE

\* The call at origin (10,4) has returned false.
C19_Witness == ScenarioCall(10, 4) /\ fnRet = FALSE

(***************************************************************************)
(* NormalizeSpec: normalizeCoords applied to one drawn list of cells.      *)
(***************************************************************************)
MaxCells == 3
CellSpan == 1

NormalizeInputs ==
    LET cells == { XY(x, y) : x \in (0 - CellSpan)..CellSpan, y \in (0 - CellSpan)..CellSpan }
    IN  UNION { [1..n -> cells] : n \in 1..MaxCells }

NormalizeInit ==
    /\ GameIdle
    /\ SearchIdle
    /\ PRECOMPUTED_VARIATIONS = GameVariations
    /\ LevelIdle
    /\ fnPc = "call"
    /\ fnArgs \in NormalizeInputs
    /\ fnRet = NULL

CallNormalizeCoords ==
    /\ fnPc = "call"
    /\ fnRet' = normalizeCoords(fnArgs)
    /\ fnPc' = "done"
    /\ UNCHANGED <<fnArgs, PRECOMPUTED_VARIATIONS, levelVars, gameVars, searchVars>>

NormalizeNext == CallNormalizeCoords

NormalizeSpec == NormalizeInit /\ [][NormalizeNext]_vars

(***************************************************************************)
(* C20: normalizeCoords sorts the cells by (y, then x) and subtracts the   *)
(* first of them from all.  The result lists the cells of the argument,    *)
(* moved by its least cell in (y, x) order, in ascending (y, x) order; its *)
(* first cell is (0,0) and none of its cells precedes (0,0); normalizing   *)
(* the result gives the result again.                                      *)
(***************************************************************************)
Occurrences(s, c) == Cardinality({ i \in DOMAIN s : s[i] = c })

C20_NormalizeAnchorsAndIsIdempotent ==
    fnPc = "done" =>
        LET least == CHOOSE c \in Range(fnArgs) :
                        \A d \in Range(fnArgs) : ~CoordBefore(d, c)
        IN  /\ Len(fnRet) = Len(fnArgs)
            /\ \A c \in Range(fnArgs) :
                  Occurrences(fnRet, XY(c.x - least.x, c.y - least.y)) = Occurrences(fnArgs, c)
            /\ \A i, j \in DOMAIN fnRet : i < j => ~CoordBefore(fnRet[j], fnRet[i])
            /\ fnRet[1] = XY(0, 0)
            /\ \A i \in DOMAIN fnRet : ~CoordBefore(fnRet[i], XY(0, 0))
            /\ normalizeCoords(fnRet) = fnRet

\* A list of three cells that was not in (y, x) order and did not start at
\* (0,0) has been normalized.
C20_Witness ==
    /\ fnPc = "done"
    /\ Len(fnArgs) = MaxCells
    /\ CoordBefore(fnArgs[2], fnArgs[1])
    /\ fnArgs[1] # XY(0, 0)
    /\ fnRet # fnArgs
    /\ fnRet[1] = XY(0, 0)

(***************************************************************************)
(* BoundsSpec: getPieceBounds applied to one drawn list of cells: the      *)
(* empty list, a short free list, or a catalog piece in an orientation.    *)
(***************************************************************************)
\* Math.min(...xs) and Math.max(...xs) of a non-empty list of integers.
MathMin(xs) == CHOOSE m \in Range(xs) : \A n \in Range(xs) : m <= n
MathMax(xs) == CHOOSE m \in Range(xs) : \A n \in Range(xs) : m >= n

XsOf(coords) == [i \in DOMAIN coords |-> coords[i].x]
YsOf(coords) == [i \in DOMAIN coords |-> coords[i].y]

\* A plausible slip: the extent is taken as a difference of coordinates, not
\* as a count of cells.
getPieceBounds_NoPlusOne(coords) ==
    IF Len(coords) = 0 THEN [minX |-> 0, minY |-> 0, width |-> 1, height |-> 1]
    ELSE [ minX |-> MathMin(XsOf(coords)),
           minY |-> MathMin(YsOf(coords)),
           width |-> MathMax(XsOf(coords)) - MathMin(XsOf(coords)),
           height |-> MathMax(YsOf(coords)) - MathMin(YsOf(coords)) ]

\* Lines 38-50.
getPieceBounds(coords) ==
    IF Len(coords) = 0 THEN [minX |-> 0, minY |-> 0, width |-> 1, height |-> 1]
    ELSE LET minX == MathMin(XsOf(coords))
             minY == MathMin(YsOf(coords))
             maxX == MathMax(XsOf(coords))
             maxY == MathMax(YsOf(coords))
         IN  [ minX |-> minX,
               minY |-> minY,
               width |-> maxX - minX + 1,
               height |-> maxY - minY + 1 ]

OrientedShapes ==
    { getTransformedCoordinates(pieceId, rotation, isFlipped) :
        pieceId \in PieceIds, rotation \in Rotations, isFlipped \in BOOLEAN }

BoundsInputs == {<<>>} \cup NormalizeInputs \cup OrientedShapes

BoundsInit ==
    /\ GameIdle
    /\ SearchIdle
    /\ PRECOMPUTED_VARIATIONS = GameVariations
    /\ LevelIdle
    /\ fnPc = "call"
    /\ fnArgs \in BoundsInputs
    /\ fnRet = NULL

CallGetPieceBounds ==
    /\ fnPc = "call"
    /\ fnRet' = getPieceBounds(fnArgs)
    /\ fnPc' = "done"
    /\ UNCHANGED <<fnArgs, PRECOMPUTED_VARIATIONS, levelVars, gameVars, searchVars>>

BoundsNext == CallGetPieceBounds

BoundsSpec == BoundsInit /\ [][BoundsNext]_vars

(***************************************************************************)
(* C21: getPieceBounds returns the least x and the least y of the cells,   *)
(* with width and height the numbers of columns and rows from the least to *)
(* the greatest; for the empty list it returns the box at (0,0) of width 1 *)
(* and height 1; for a catalog piece in any of its 8 orientations width    *)
(* times height is at least the number of the piece's cells.               *)
(***************************************************************************)
C21_BoundsAreTheTightBox ==
    fnPc = "done" =>
        /\ fnArgs = <<>> => fnRet = [minX |-> 0, minY |-> 0, width |-> 1, height |-> 1]
        /\ fnArgs # <<>> =>
              /\ \A c \in Range(fnArgs) :
                    /\ fnRet.minX <= c.x /\ c.x <= fnRet.minX + fnRet.width - 1
                    /\ fnRet.minY <= c.y /\ c.y <= fnRet.minY + fnRet.height - 1
              /\ \E c \in Range(fnArgs) : c.x = fnRet.minX
              /\ \E c \in Range(fnArgs) : c.y = fnRet.minY
              /\ \E c \in Range(fnArgs) : c.x = fnRet.minX + fnRet.width - 1
              /\ \E c \in Range(fnArgs) : c.y = fnRet.minY + fnRet.height - 1
        /\ \A d \in DOMAIN PIECE_DEFINITIONS, rotation \in Rotations, isFlipped \in BOOLEAN :
              fnArgs = getTransformedCoordinates(PIECE_DEFINITIONS[d].id, rotation, isFlipped)
              => fnRet.width * fnRet.height >= Len(PIECE_DEFINITIONS[d].initialShape)

\* The bounds of a catalog piece of 5 cells, turned and flipped, whose box is
\* larger than the piece.
C21_Witness ==
    /\ fnPc = "done"
    /\ \E pieceId \in PieceIds, rotation \in Rotations \ {0} :
          fnArgs = getTransformedCoordinates(pieceId, rotation, TRUE)
    /\ Len(fnArgs) = 5
    /\ fnRet.width * fnRet.height > 5
    /\ fnRet.minX < 0

(***************************************************************************)
(* BoardSpec: getBoardGrid applied to one drawn list of placed pieces,     *)
(* among them pieces that overlap, repeat an id, lie partly or wholly      *)
(* outside the grid, or carry an id that is not in the catalog.            *)
(***************************************************************************)
MaxBoardPieces == 2

BoardPieces ==
    [ id : {"L", "K", UnknownId},
      x : {0 - 1, 0, 1, GRID_COLS - 1},
      y : {0, GRID_ROWS - 1},
      rotation : {0, 90},
      isFlipped : {FALSE},
      isLocked : {FALSE} ]

BoardInputs == UNION { [1..n -> BoardPieces] : n \in 0..MaxBoardPieces }

BoardInit ==
    /\ GameIdle
    /\ SearchIdle
    /\ PRECOMPUTED_VARIATIONS = GameVariations
    /\ LevelIdle
    /\ fnPc = "call"
    /\ fnArgs \in BoardInputs
    /\ fnRet = NULL

CallGetBoardGrid ==
    /\ fnPc = "call"
    /\ fnRet' = getBoardGrid(fnArgs)
    /\ fnPc' = "done"
    /\ UNCHANGED <<fnArgs, PRECOMPUTED_VARIATIONS, levelVars, gameVars, searchVars>>

BoardNext == CallGetBoardGrid

BoardSpec == BoardInit /\ [][BoardNext]_vars

(***************************************************************************)
(* C22: getBoardGrid returns a grid of 5 rows and 11 columns in which a    *)
(* cell holds the id of the last piece of the list that has this cell      *)
(* among its absolute cells, and is empty when no piece has it; cells of a *)
(* piece outside the grid are skipped and change no cell of the grid.      *)
(***************************************************************************)
Covering(pieces, x, y) ==
    { i \in DOMAIN pieces :
        XY(x, y) \in AbsoluteCells(pieces[i].id, pieces[i].x, pieces[i].y,
                                   pieces[i].rotation, pieces[i].isFlipped) }

C22_GridHoldsLastCoveringPiece ==
    fnPc = "done" =>
        /\ DOMAIN fnRet = 1..GRID_ROWS
        /\ \A y \in 0..(GRID_ROWS - 1) :
              /\ DOMAIN fnRet[y + 1] = 1..GRID_COLS
              /\ \A x \in 0..(GRID_COLS - 1) :
                    LET covering == Covering(fnArgs, x, y)
                    IN  IF covering = {}
                        THEN fnRet[y + 1][x + 1] = NULL
                        ELSE \E i \in covering :
                                /\ \A j \in covering : j <= i
                                /\ fnRet[y + 1][x + 1] = fnArgs[i].id

\* The grid of two pieces that share a cell, the second of them with a cell
\* outside the grid.
C22_Witness ==
    /\ fnPc = "done"
    /\ Len(fnArgs) = 2
    /\ fnArgs[1].id # fnArgs[2].id
    /\ \E x \in 0..(GRID_COLS - 1), y \in 0..(GRID_ROWS - 1) : Covering(fnArgs, x, y) = {1, 2}
    /\ \E c \in AbsoluteCells(fnArgs[2].id, fnArgs[2].x, fnArgs[2].y,
                              fnArgs[2].rotation, fnArgs[2].isFlipped) : ~InGrid(c.x, c.y)

(***************************************************************************)
(* C23: backtracking restores the grid.  When a call of the solver returns *)
(* null the grid is, cell for cell, as it was when the call was entered;   *)
(* when it returns placements, the cells occupied now and empty at its     *)
(* entry are exactly the cells of the placements it returns.               *)
(***************************************************************************)
OccupiedCells(grid) == { c \in GridCells : grid[c.y + 1][c.x + 1] }

\* A step with which the innermost call returns.
FrameReturns ==
    /\ searchStack # <<>>
    /\ Len(searchStack') = Len(searchStack) - 1

C23_BacktrackingRestoresGrid ==
    [][ FrameReturns =>
          LET entry == TopFrame.entryGrid
              now == gridHeap'[searchGrid']
          IN  IF searchRet'.ok
              THEN /\ OccupiedCells(entry) \subseteq OccupiedCells(now)
                   /\ OccupiedCells(now) \ OccupiedCells(entry)
                        = UNION { PieceCells(searchRet'.pieces[i]) : i \in DOMAIN searchRet'.pieces }
              ELSE now = entry ]_vars

\* A call has returned null to a caller that is itself inside a call, has
\* cells marked and is past its first variation.
C23_Witness ==
    /\ searchPc = "return"
    /\ ~searchRet.ok
    /\ Len(searchStack) >= 2
    /\ TopFrame.i >= 2
    /\ gridHeap[searchGrid] # NewGrid

(***************************************************************************)
(* C24: at every step of the search that places a piece, the piece is the  *)
(* head of the remaining list, in one of its orientations, and the first   *)
(* of its cells in (y, x) order lies on the first empty cell of the grid   *)
(* in row-major order; so in a returned solution the pieces follow the     *)
(* order of the list given and their first cells are strictly increasing   *)
(* in row-major order.                                                     *)
(***************************************************************************)
RowMajor(c) == c.y * GRID_COLS + c.x

LeastCell(cells) == CHOOSE c \in cells : \A d \in cells : RowMajor(c) <= RowMajor(d)

\* A step of the loop that marks the cells of a variation and calls the
\* solver on the rest of the list.
PlacesPiece == searchPc = "loop" /\ searchPc' = "call"

C24_PlacesHeadOnFirstEmptyCell ==
    /\ [][ PlacesPiece =>
             LET before == OccupiedCells(gridHeap[searchGrid])
                 marked == OccupiedCells(gridHeap'[searchGrid']) \ before
             IN  /\ before \subseteq OccupiedCells(gridHeap'[searchGrid'])
                 /\ marked # {}
                 /\ BoxAligned(marked) \in ImagesUpToTranslation(TopFrame.remainingPieceIds[1])
                 /\ LeastCell(marked) = LeastCell(GridCells \ before)
                 /\ searchArg' = Tail(TopFrame.remainingPieceIds) ]_vars
    /\ [](( searchPc = "returned" /\ searchRet.ok ) =>
             LET pieces == searchRet.pieces
                 given == searchRuns[Len(searchRuns)].remainingPieceIds
             IN  /\ Len(pieces) <= Len(given)
                 /\ \A i \in DOMAIN pieces : pieces[i].id = given[i]
                 /\ \A i, j \in DOMAIN pieces :
                       i < j => RowMajor(LeastCell(PieceCells(pieces[i])))
                                  < RowMajor(LeastCell(PieceCells(pieces[j]))))

\* A piece has just been placed on a grid that already held pieces, with its
\* first cell not in the leftmost column and not in the top row.
C24_Witness ==
    /\ searchPc = "call"
    /\ Len(searchStack) >= 3
    /\ TopFrame.emptyX > 0
    /\ TopFrame.emptyY > 0
    /\ gridHeap[searchGrid][TopFrame.emptyY + 1][TopFrame.emptyX + 1]

(***************************************************************************)
(* C25: the solver is complete for the piece order it is given.  It        *)
(* returns null only if there is no way to place the pieces one after the  *)
(* other in list order, each in one of its 8 orientations, within the grid *)
(* and on empty cells, each covering the first cell that the pieces before *)
(* it left empty.                                                          *)
(***************************************************************************)
\* The ways to lay the piece within the grid on cells outside `occupied` so
\* that it covers the cell `target`: any cell of any orientation on target.
WaysToCover(pieceId, occupied, target) ==
    LET orientations == { getTransformedCoordinates(pieceId, rotation, isFlipped) :
                            rotation \in Rotations, isFlipped \in BOOLEAN }
        laid == UNION { { { XY(target.x + c.x - on.x, target.y + c.y - on.y) : c \in Range(shape) } :
                            on \in Range(shape) } :
                          shape \in orientations }
    IN  { cells \in laid : /\ target \in cells
                           /\ cells \subseteq GridCells
                           /\ cells \cap occupied = {} }

RECURSIVE CanPlaceInOrder(_, _)
CanPlaceInOrder(occupied, ids) ==
    IF ids = <<>> THEN TRUE
    ELSE IF GridCells \ occupied = {} THEN FALSE
    ELSE \E cells \in WaysToCover(ids[1], occupied, LeastCell(GridCells \ occupied)) :
            CanPlaceInOrder(occupied \cup cells, Tail(ids))

C25_NullOnlyIfNoPlacementInOrder ==
    searchPc = "returned" =>
        LET given == searchRuns[Len(searchRuns)].remainingPieceIds
        IN  /\ ~searchRet.ok => ~CanPlaceInOrder({}, given)
            /\ (searchRet.ok /\ Len(searchRet.pieces) = Len(given)) => CanPlaceInOrder({}, given)

\* The search over all 12 pieces has returned null.
C25_Witness ==
    /\ searchPc = "returned"
    /\ ~searchRet.ok
    /\ Len(searchRuns[1].remainingPieceIds) = Len(PIECE_DEFINITIONS)

(***************************************************************************)
(* C26: while the game mode is FREE the board holds no locked piece,       *)
(* whatever callbacks of earlier level loads are still to run.             *)
(***************************************************************************)
C26_FreeModeHasNoLockedPiece ==
    gameMode = "FREE" => \A i \in DOMAIN placedPieces : ~placedPieces[i].isLocked

(***************************************************************************)
(* C27: the loading flag covers every pending generation: as long as a     *)
(* callback scheduled by loadLevel has not run, loading is true.           *)
(***************************************************************************)
C27_LoadingWhileGenerationPending ==
    pendingLoads # <<>> => loading

(***************************************************************************)
(* C28: the completion state, bank empty while loading is false, is        *)
(* reached only when all 12 catalog pieces are in the placed-piece list    *)
(* and cover the 55 cells of the grid exactly once, and not while a piece  *)
(* is being dragged.                                                       *)
(***************************************************************************)
CompletionShown == bankPieceIds = {} /\ ~loading

C28_CompleteOnlyWhenBoardIsTiled ==
    CompletionShown =>
        /\ dragState = NoDrag
        /\ { placedPieces[i].id : i \in DOMAIN placedPieces } = PieceIds
        /\ ExactTiling(placedPieces)

(***************************************************************************)
(* C29: the static layout that generateChallenge returns from its catch    *)
(* block keeps the board invariants: the cells of C at (1,1) rotation 0,   *)
(* of J at (6,2) rotation 270 flipped and of E at (9,0) rotation 180,      *)
(* replayed through getTransformedCoordinates and the origin, all lie      *)
(* within the grid, and no two of the pieces share a cell.                 *)
(***************************************************************************)
ReturnedFallback ==
    /\ fnPc = "settled"
    /\ ServiceFails(fnArgs)

C29_FallbackLayoutIsValidBoard ==
    ReturnedFallback =>
        /\ Len(fnRet.value) = 3
        /\ \E c, j, e \in {fnRet.value[i] : i \in 1..3} :
              /\ c.id = "C" /\ c.x = 1 /\ c.y = 1 /\ c.rotation = 0 /\ ~c.isFlipped
              /\ j.id = "J" /\ j.x = 6 /\ j.y = 2 /\ j.rotation = 270 /\ j.isFlipped
              /\ e.id = "E" /\ e.x = 9 /\ e.y = 0 /\ e.rotation = 180 /\ ~e.isFlipped
        /\ \A i \in DOMAIN fnRet.value : PieceCells(fnRet.value[i]) # {}
        /\ AllInGrid(fnRet.value)
        /\ NoOverlap(fnRet.value)

(***************************************************************************)
(* C30: a rejected drop changes nothing on the board.  A release with no   *)
(* ghost, or with a ghost that is not valid, leaves the placed-piece list  *)
(* as it is; every release clears the drag state and the ghost state, and  *)
(* after it the piece that was dragged is on the board exactly once or is  *)
(* back in the bank.                                                       *)
(***************************************************************************)
EntriesOf(pieces, pieceId) == { i \in DOMAIN pieces : pieces[i].id = pieceId }

C30_RejectedDropChangesNothing ==
    [][ handleUp =>
          /\ (ghostState = NoGhost \/ ~ghostState.isValid) => placedPieces' = placedPieces
          /\ dragState' = NoDrag
          /\ ghostState' = NoGhost
          /\ LET onBoard == Cardinality(EntriesOf(placedPieces', dragState.pieceId))
                 inBank == dragState.pieceId \in bankPieceIds'
             IN  \/ onBoard = 1 /\ ~inBank
                 \/ onBoard = 0 /\ inBank ]_vars

=============================================================================
